---------------------------- MODULE Spec2Model ----------------------------
(***************************************************************************)
(* Wall Harp Simulator: string physics, the HarpString entity, the tuning  *)
(* operations, the InteractionManager state machine and the application    *)
(* controller (WallHarpSimulator), as far as the checked properties need.  *)
(*                                                                         *)
(* Numbers.  The program computes in IEEE doubles; the model computes on   *)
(* integer grids:                                                          *)
(*   lengths and capo positions   millimetres                              *)
(*   frequencies                  centihertz (Hz * 100)                    *)
(*   MIDI notes                   MIDI cents (MIDI * 100)                  *)
(*   wave speed                   decimetres per second                    *)
(*   amplitudes and velocities    thousandths                              *)
(* Every formula is the source's formula evaluated on these grids.         *)
(***************************************************************************)
EXTENDS Integers, Sequences, FiniteSets, TLC

VARIABLES
    strings,        \* app.strings / interactionManager.strings: the current collection
    PHYSICS,        \* the mutable fields of PHYSICS_CONSTANTS (FULL_STRING_LENGTH, WALL_WIDTH)
    app,            \* WallHarpSimulator fields
    im,             \* InteractionManager fields
    audio,          \* the global audioEngine (HarpAudioEngine)
    exported,       \* the last configuration produced by exportConfiguration
    mouse,          \* the pointer: its button ("up" or "down") and the presses so far
    clock,          \* Date.now(), in ms
    sequencer,      \* the global sequencer (Sequencer) and its interval timers
    lastOp          \* the last operation: its name, arguments, return value, audio triggers

vars == <<strings, PHYSICS, app, im, audio, exported, mouse, clock, sequencer, lastOp>>

-----------------------------------------------------------------------------
(* Bounds of the model *)

MaxStrings == 2
\* pointer presses in one session
MaxPresses == 2
MaxScaleStrings == 40

-----------------------------------------------------------------------------
(* constants.js *)

NULL == -999

\* NaN, the result of parseInt and parseFloat on text that is no number
NAN == -888

MIN_CAPO_DISTANCE == 50
MIN_PLAYABLE_LENGTH == 50
MAX_PLAYABLE_LENGTH == 2000
DEFAULT_FULL_STRING_LENGTH == 2134
DEFAULT_WALL_WIDTH == 7830
DEFAULT_TENSION == 120
CANVAS_HEIGHT == 700

DEFAULT_MATERIAL == "steel"
DEFAULT_GAUGE == "medium"

\* STRING_MATERIALS[m].density, kg/m^3
MaterialDensity(material) ==
    CASE material = "steel" -> 7850
      [] material = "nylon" -> 1140
      [] material = "gut" -> 1300
      [] material = "bronze" -> 8800
      [] material = "phosphorBronze" -> 8900

\* STRING_GAUGES[g].diameter, in hundredths of a millimetre
GaugeDiameter(gauge) ==
    CASE gauge = "extraLight" -> 25
      [] gauge = "light" -> 35
      [] gauge = "medium" -> 50
      [] gauge = "heavy" -> 70
      [] gauge = "extraHeavy" -> 90

Max(a, b) == IF a >= b THEN a ELSE b
Min(a, b) == IF a <= b THEN a ELSE b

RECURSIVE SqrtSearch(_, _, _)
SqrtSearch(n, lo, hi) ==
    IF lo >= hi THEN lo
    ELSE LET mid == (lo + hi + 1) \div 2
         IN  IF mid * mid <= n THEN SqrtSearch(n, mid, hi) ELSE SqrtSearch(n, lo, mid - 1)

\* Math.sqrt on the integer grid (floor)
Sqrt(n) == SqrtSearch(n, 0, 46340)

RECURSIVE Pow2(_)
Pow2(k) == IF k <= 0 THEN 1 ELSE 2 * Pow2(k - 1)

\* PHYSICS_CONSTANTS.calculateWaveSpeed: v = sqrt(T / (pi r^2 rho)), in dm/s.
\* 1273240 = 4 * 10^6 / pi; the divisions are ordered to stay within 32 bits.
calculateWaveSpeed(material, gauge, tension) ==
    LET d == GaugeDiameter(gauge)
        q == (((1273240 * tension) \div (d * d)) * 1000) \div MaterialDensity(material)
    IN  Sqrt(q * 1000)

-----------------------------------------------------------------------------
(* physics.js (src/unnamed/part_000) *)

\* 440 * 2^((m - 69) / 12) for m = 120 .. 131, in centihertz
SemitoneTable ==
    <<837202, 886984, 939727, 995606, 1054808, 1117530,
      1183982, 1254385, 1328975, 1408000, 1491724, 1580427>>

SemitoneFrequency(semi) ==
    LET oct == semi \div 12
        base == SemitoneTable[(semi % 12) + 1]
    IN  IF oct <= 10 THEN base \div Pow2(10 - oct) ELSE base * Pow2(oct - 10)

\* midiToFrequency: exact on semitones, interpolated between them
midiToFrequency(midiNote) ==
    LET semi == midiNote \div 100
        frac == midiNote % 100
        lo == SemitoneFrequency(semi)
    IN  IF frac = 0 THEN lo
        ELSE lo + ((SemitoneFrequency(semi + 1) - lo) * frac) \div 100

clamp(value, min, max) == Max(min, Min(max, value))

INFINITY == 2000000000

-----------------------------------------------------------------------------
(* string.js: class HarpString *)

\* HarpString.calculateLengthFromFrequency: L = v / (2 f), in mm
calculateLengthFromFrequency(s, frequency) ==
    IF frequency = 0 THEN INFINITY
    ELSE (calculateWaveSpeed(s.material, s.gauge, s.tension) * 5000) \div frequency

\* HarpString.calculateFrequencyFromLength: f = v / (2 L), in centihertz
calculateFrequencyFromLength(s, lengthMm) ==
    IF lengthMm = NAN THEN NAN
    ELSE IF lengthMm = 0 THEN INFINITY
    ELSE (calculateWaveSpeed(s.material, s.gauge, s.tension) * 5000) \div lengthMm

\* HarpString.calculateDrawLength, called without canvasHeight; Math.sqrt and
\* Math.max give NaN on a NaN coordinate
calculateDrawLength(s, fsl) ==
    IF ~s.drawMode \/ s.startX = NULL \/ s.endX = NULL THEN s.playableLengthMm
    ELSE IF NAN \in {s.startX, s.startY, s.endX, s.endY} THEN NAN
    ELSE LET dx == s.endX - s.startX
             dy == s.endY - s.startY
             pixelLength10 == Sqrt((dx * dx + dy * dy) * 100)
             lengthMm == (pixelLength10 * fsl) \div (10 * CANVAS_HEIGHT)
         IN  Max(lengthMm, MIN_PLAYABLE_LENGTH)

updateCalculations(s, fsl) ==
    LET len == IF s.drawMode /\ s.startX # NULL /\ s.endX # NULL
               THEN calculateDrawLength(s, fsl)
               ELSE s.upperCapoMm - s.lowerCapoMm
    IN  [s EXCEPT !.playableLengthMm = len,
                  !.actualFrequency = calculateFrequencyFromLength(s, len)]

\* Positions live on the 1 mm grid: the two halves of an odd length round
\* in opposite directions, so that upper - lower is the clamped length.
initializeCapoPositions(s, fsl) ==
    LET clampedLength == clamp(s.targetLengthMm, MIN_PLAYABLE_LENGTH, MAX_PLAYABLE_LENGTH)
        centerOfString == fsl \div 2
        lower0 == centerOfString - (clampedLength \div 2)
        upper0 == centerOfString + (clampedLength - (clampedLength \div 2))
        lower1 == IF lower0 < MIN_CAPO_DISTANCE THEN MIN_CAPO_DISTANCE ELSE lower0
        upper1 == IF lower0 < MIN_CAPO_DISTANCE THEN lower1 + clampedLength ELSE upper0
        over == upper1 > fsl - MIN_CAPO_DISTANCE
        upper2 == IF over THEN fsl - MIN_CAPO_DISTANCE ELSE upper1
        lower2 == IF over THEN upper2 - clampedLength ELSE lower1
    IN  updateCalculations([s EXCEPT !.lowerCapoMm = lower2, !.upperCapoMm = upper2], fsl)

\* new HarpString(index, totalStrings, targetMidiNote, material, gauge, tension)
HarpString(index, totalStrings, targetMidiNote, material, gauge, tension, fsl) ==
    LET s0 == [index |-> index,
               totalStrings |-> totalStrings,
               targetMidiNote |-> targetMidiNote,
               material |-> material,
               gauge |-> gauge,
               tension |-> tension,
               targetFrequency |-> midiToFrequency(targetMidiNote),
               targetLengthMm |-> 0,
               lowerCapoMm |-> 0,
               upperCapoMm |-> 0,
               playableLengthMm |-> 0,
               actualFrequency |-> 0,
               isPlaying |-> FALSE,
               playingAmplitude |-> 0,
               isSelected |-> FALSE,
               isDraggingLowerCapo |-> FALSE,
               isDraggingUpperCapo |-> FALSE,
               drawMode |-> FALSE,
               startX |-> NULL, startY |-> NULL, endX |-> NULL, endY |-> NULL,
               isDraggingStart |-> FALSE,
               isDraggingEnd |-> FALSE,
               timerPending |-> FALSE,
               timers |-> <<>>]
        s1 == [s0 EXCEPT !.targetLengthMm = calculateLengthFromFrequency(s0, s0.targetFrequency)]
    IN  initializeCapoPositions(s1, fsl)

\* mutant: the string keeps its length and takes the frequency that length
\* has under the new material
setMaterial_retune(s, material, gauge, tension, fsl) ==
    LET s1 == [s EXCEPT !.material = material, !.gauge = gauge, !.tension = tension]
        s2 == [s1 EXCEPT !.targetFrequency = calculateFrequencyFromLength(s1, s.targetLengthMm)]
    IN  initializeCapoPositions(s2, fsl)

setMaterial(s, material, gauge, tension, fsl) ==
    LET s1 == [s EXCEPT !.material = material, !.gauge = gauge, !.tension = tension]
        s2 == [s1 EXCEPT !.targetLengthMm = calculateLengthFromFrequency(s1, s1.targetFrequency)]
    IN  initializeCapoPositions(s2, fsl)

\* mutant: the lower capo is not held below the upper capo
setLowerCapoPosition_noUpperClamp(s, positionMm, fsl) ==
    updateCalculations(
        [s EXCEPT !.lowerCapoMm = Max(positionMm, MIN_CAPO_DISTANCE)], fsl)

setLowerCapoPosition(s, positionMm, fsl) ==
    updateCalculations(
        [s EXCEPT !.lowerCapoMm =
            clamp(positionMm, MIN_CAPO_DISTANCE, s.upperCapoMm - MIN_PLAYABLE_LENGTH)], fsl)

setUpperCapoPosition(s, positionMm, fsl) ==
    updateCalculations(
        [s EXCEPT !.upperCapoMm =
            clamp(positionMm, s.lowerCapoMm + MIN_PLAYABLE_LENGTH, fsl - MIN_CAPO_DISTANCE)], fsl)

\* createChromaticStrings(numStrings, material, gauge, tension): MIDI 36 upward
createChromaticStrings(numStrings, material, gauge, tension, fsl) ==
    [i \in 1 .. numStrings |->
        HarpString(i - 1, numStrings, (36 + (i - 1)) * 100, material, gauge, tension, fsl)]


-----------------------------------------------------------------------------
(* Initial values of the objects *)

\* A reference to a string object: its index, and whether the object belongs
\* to a collection that has been replaced since the reference was taken.
NoString == [index |-> -1, stale |-> FALSE]

\* PHYSICS_CONSTANTS as loaded (constants.js)
InitPHYSICS ==
    [FULL_STRING_LENGTH |-> DEFAULT_FULL_STRING_LENGTH, WALL_WIDTH |-> DEFAULT_WALL_WIDTH]

\* new InteractionManager(strings, w, h)
InitIM ==
    [mode |-> "pluck",
     selectedStringIndex |-> 0,
     selectedStringIndices |-> <<0>>,
     draggedString |-> NoString,
     draggedCapo |-> "null",
     activeCapo |-> "lower",
     placingString |-> FALSE,
     currentStringIndex |-> -1,
     placedStartPoint |-> FALSE,
     lastDragPluckTime |-> 0]

\* new WallHarpSimulator()
InitApp ==
    [numStrings |-> MaxStrings,
     selectedStringIndex |-> 0,
     wallWidthMm |-> DEFAULT_WALL_WIDTH,
     reverseCapoMode |-> FALSE,
     currentMaterial |-> DEFAULT_MATERIAL,
     currentGauge |-> DEFAULT_GAUGE,
     currentTension |-> DEFAULT_TENSION]

\* new HarpAudioEngine()
InitAudio ==
    [initialized |-> FALSE, initializing |-> <<>>, numSynths |-> 0, testChord |-> 0]

NoConfig == [version |-> "none"]

\* the pointer before the first press
InitMouse == [button |-> "up", presses |-> 0]

\* new Sequencer().  timers are the ids of the interval timers that are
\* scheduled and nextTimer the id setInterval returns next; played counts the
\* steps run since the last play().
NewSequencer ==
    [sequence |-> <<>>, tempo |-> 120, isPlaying |-> FALSE, currentStep |-> 0,
     loopEnabled |-> FALSE, intervalId |-> NULL, appReference |-> FALSE,
     timers |-> {}, nextTimer |-> 1, played |-> 0]

\* the time at which the page is loaded, in ms
ClockStart == 1000

\* The record of one operation: its name, its return value or argument, the
\* strings on which pluck() was called and the synths the audio engine triggered.
Op(name) == [op |-> name, ret |-> TRUE, plucked |-> <<>>, sounded |-> <<>>]

-----------------------------------------------------------------------------
(* Inputs *)

\* <<material, gauge, tension>> as chosen in the material panel
MaterialChoices ==
    {<<"steel", "medium", 120>>, <<"steel", "heavy", 120>>,
     <<"nylon", "heavy", 60>>, <<"bronze", "extraHeavy", 100>>}

\* capo positions requested through the setters, in mm
CapoPositions == {-100, 49, 50, 51, 600, 1500, 2084, 2085, 2500}

-----------------------------------------------------------------------------
(* SpecCapo: a collection of newly created strings, one of which (the     *)
(* primary selection) is driven through the three HarpString mutators     *)
(* setLowerCapoPosition, setUpperCapoPosition and setMaterial.  Each of   *)
(* the three touches one string only, so the others stay as created.      *)

InitCapo ==
    /\ PHYSICS = InitPHYSICS
    /\ app = InitApp
    /\ audio = InitAudio
    /\ exported = NoConfig
    /\ mouse = InitMouse
    /\ clock = ClockStart
    /\ sequencer = NewSequencer
    /\ lastOp = Op("new")
    /\ \E n \in 1 .. MaxStrings, mc \in MaterialChoices :
          /\ strings = createChromaticStrings(n, mc[1], mc[2], mc[3], PHYSICS.FULL_STRING_LENGTH)
          /\ \E sel \in 0 .. n - 1 :
                im = [InitIM EXCEPT !.selectedStringIndex = sel,
                                    !.selectedStringIndices = <<sel>>]

CallSetLowerCapoPosition ==
    \E pos \in CapoPositions :
        /\ strings' = [strings EXCEPT ![im.selectedStringIndex + 1] =
                          setLowerCapoPosition(@, pos, PHYSICS.FULL_STRING_LENGTH)]
        /\ lastOp' = [Op("setLowerCapoPosition") EXCEPT !.ret = pos]
        /\ UNCHANGED <<PHYSICS, app, im, audio, exported, mouse, clock, sequencer>>

CallSetUpperCapoPosition ==
    \E pos \in CapoPositions :
        /\ strings' = [strings EXCEPT ![im.selectedStringIndex + 1] =
                          setUpperCapoPosition(@, pos, PHYSICS.FULL_STRING_LENGTH)]
        /\ lastOp' = [Op("setUpperCapoPosition") EXCEPT !.ret = pos]
        /\ UNCHANGED <<PHYSICS, app, im, audio, exported, mouse, clock, sequencer>>

CallSetMaterial ==
    \E mc \in MaterialChoices :
        /\ strings' = [strings EXCEPT ![im.selectedStringIndex + 1] =
                          setMaterial(@, mc[1], mc[2], mc[3], PHYSICS.FULL_STRING_LENGTH)]
        /\ lastOp' = Op("setMaterial")
        /\ UNCHANGED <<PHYSICS, app, im, audio, exported, mouse, clock, sequencer>>

NextCapo ==
    \/ CallSetLowerCapoPosition
    \/ CallSetUpperCapoPosition
    \/ CallSetMaterial

SpecCapo == InitCapo /\ [][NextCapo]_vars

-----------------------------------------------------------------------------
(* The program state as one record: a handler is an operator from state   *)
(* to state, and a handler that calls another handler composes them.      *)

World ==
    [strings |-> strings, PHYSICS |-> PHYSICS, app |-> app, im |-> im,
     audio |-> audio, exported |-> exported, mouse |-> mouse, clock |-> clock,
     sequencer |-> sequencer,
     lastOp |-> lastOp]

Becomes(w) ==
    /\ strings' = w.strings
    /\ PHYSICS' = w.PHYSICS
    /\ app' = w.app
    /\ im' = w.im
    /\ audio' = w.audio
    /\ exported' = w.exported
    /\ mouse' = w.mouse
    /\ clock' = w.clock
    /\ sequencer' = w.sequencer
    /\ lastOp' = w.lastOp

\* the state in which handler `name` starts
Begin(name) == [World EXCEPT !.lastOp = Op(name)]

Abs(a) == IF a < 0 THEN -a ELSE a

Contains(seq, v) == \E k \in 1 .. Len(seq) : seq[k] = v

\* Array.indexOf, 1-based; 0 when absent
IndexOf(seq, v) ==
    IF Contains(seq, v) THEN CHOOSE k \in 1 .. Len(seq) :
                                 seq[k] = v /\ \A j \in 1 .. k - 1 : seq[j] # v
    ELSE 0

\* Array.splice(k, 1)
Splice(seq, k) == SubSeq(seq, 1, k - 1) \o SubSeq(seq, k + 1, Len(seq))

\* the canvas, as p.setup sizes it from the window
CanvasWidth == 1000
CanvasHeight == 700

\* mmToScreenY, in thousandths of a pixel
mmToScreenY(positionMm, canvasHeight, fsl) ==
    LET stringZoneHeight == canvasHeight - 60 - 120
        stringZoneBottom == canvasHeight - 120
    IN  stringZoneBottom * 1000 - (positionMm * stringZoneHeight * 1000) \div fsl

\* screenYToMm, in mm
screenYToMm(screenY, canvasHeight, fsl) ==
    LET stringZoneHeight == canvasHeight - 60 - 120
        stringZoneBottom == canvasHeight - 120
    IN  ((stringZoneBottom - screenY) * fsl) \div stringZoneHeight

\* isNearPoint: sqrt(dx^2 + dy^2) < threshold, false on a NaN coordinate
isNearPoint(px, py, ex, ey, threshold) ==
    /\ ex # NAN
    /\ ey # NAN
    /\ (px - ex) * (px - ex) + (py - ey) * (py - ey) < threshold * threshold

\* floor(1000 r / d) for 0 <= r <= d, digit by digit to stay within 32 bits
Thousandths(r, d) ==
    LET a1 == (r * 10) \div d
        r1 == (r * 10) % d
        a2 == (r1 * 10) \div d
        r2 == (r1 * 10) % d
    IN  IF r = d THEN 1000 ELSE 100 * a1 + 10 * a2 + (r2 * 10) \div d

\* distanceToLineSegment, squared, in pixels^2; param in thousandths
distanceToLineSegmentSq(px, py, x1, y1, x2, y2) ==
    LET A == px - x1
        B == py - y1
        C == x2 - x1
        D == y2 - y1
        dot == A * C + B * D
        lenSq == C * C + D * D
        param == IF lenSq = 0 \/ dot < 0 THEN -1000
                 ELSE IF dot > lenSq THEN 2000
                 ELSE Thousandths(dot, lenSq)
        xx == IF param < 0 THEN x1 ELSE IF param > 1000 THEN x2 ELSE x1 + (param * C) \div 1000
        yy == IF param < 0 THEN y1 ELSE IF param > 1000 THEN y2 ELSE y1 + (param * D) \div 1000
    IN  (px - xx) * (px - xx) + (py - yy) * (py - yy)

-----------------------------------------------------------------------------
(* audio.js and HarpString.pluck *)

\* HarpAudioEngine.pluckString: TRUE when the synth is triggered
pluckString(a, stringIndex, frequency) ==
    /\ a.initialized
    /\ stringIndex >= 0 /\ stringIndex < a.numSynths
    /\ frequency # 0 /\ frequency >= 2000 /\ frequency <= 2000000

\* mutant: pluck without the check that audio is initialized
pluck_noInitCheck(w, i) ==
    [w EXCEPT !.lastOp.plucked = Append(@, [index |-> i, stale |-> FALSE]),
              !.strings[i + 1] = [@ EXCEPT !.isPlaying = TRUE,
                                           !.playingAmplitude = 1000,
                                           !.timerPending = TRUE]]

\* mutant: pluck marks the string as playing and leaves its amplitude
pluck_keepAmplitude(w, i) ==
    LET called == [w EXCEPT !.lastOp.plucked = Append(@, [index |-> i, stale |-> FALSE])]
    IN  IF ~w.audio.initialized THEN called
        ELSE [called EXCEPT !.strings[i + 1] = [@ EXCEPT !.isPlaying = TRUE,
                                                         !.timerPending = TRUE]]

\* HarpString.pluck on the string at index i of the current collection
pluck(w, i) ==
    LET s == w.strings[i + 1]
        called == [w EXCEPT !.lastOp.plucked = Append(@, [index |-> i, stale |-> FALSE])]
    IN  IF ~w.audio.initialized THEN called
        ELSE [called EXCEPT
                !.lastOp.sounded =
                    IF pluckString(w.audio, s.index, s.actualFrequency)
                    THEN Append(@, s.index) ELSE @,
                !.strings[i + 1] = [@ EXCEPT !.isPlaying = TRUE,
                                             !.playingAmplitude = 1000,
                                             !.timerPending = TRUE]]

\* HarpString.pluck through an object reference.  A stale reference plucks
\* an object of a replaced collection: the current strings do not change.
pluckRef(w, ref) ==
    IF ~ref.stale THEN pluck(w, ref.index)
    ELSE [w EXCEPT !.lastOp.plucked = Append(@, [index |-> ref.index, stale |-> TRUE]),
                   !.lastOp.sounded =
                       IF w.audio.initialized /\ ref.index < w.audio.numSynths
                       THEN Append(@, ref.index) ELSE @]

-----------------------------------------------------------------------------
(* interaction.js: class InteractionManager *)

PLUCK == "pluck"
ADJUST == "adjust"
PATTERN == "pattern"
\* used by interaction.js and main.js as INTERACTION_CONSTANTS.MODES.DRAW
DRAW == "draw"
\* isNearPoint's default threshold, which findEndpointAtPosition gets
ENDPOINT_GRAB_THRESHOLD == 20

updateSelection(w) ==
    [w EXCEPT !.strings =
        [i \in 1 .. Len(w.strings) |->
            [w.strings[i] EXCEPT !.isSelected = Contains(w.im.selectedStringIndices, i - 1)]]]

\* the string is in draw mode with both endpoints placed
Placed(s) == s.drawMode /\ s.startX # NULL /\ s.endX # NULL

\* 0 when there is none, else the 1-based position of the first hit
findEndpointAtPosition(w, mouseX, mouseY) ==
    LET near(i) ==
            /\ Placed(w.strings[i])
            /\ \/ isNearPoint(mouseX, mouseY, w.strings[i].startX, w.strings[i].startY,
                              ENDPOINT_GRAB_THRESHOLD)
               \/ isNearPoint(mouseX, mouseY, w.strings[i].endX, w.strings[i].endY,
                              ENDPOINT_GRAB_THRESHOLD)
        hits == {i \in 1 .. Len(w.strings) : near(i)}
    IN  IF hits = {} THEN 0 ELSE CHOOSE i \in hits : \A j \in hits : i <= j

findUnplacedDrawString(w) ==
    LET hits == {i \in 1 .. Len(w.strings) :
                    w.strings[i].drawMode /\ (w.strings[i].startX = NULL \/ w.strings[i].endX = NULL)}
    IN  IF hits = {} THEN 0 ELSE CHOOSE i \in hits : \A j \in hits : i <= j

findStringAtPosition(w, mouseX, mouseY) ==
    LET hits == {i \in 1 .. Len(w.strings) :
                    /\ Placed(w.strings[i])
                    /\ NAN \notin {w.strings[i].startX, w.strings[i].startY,
                                   w.strings[i].endX, w.strings[i].endY}
                    /\ distanceToLineSegmentSq(mouseX, mouseY,
                           w.strings[i].startX, w.strings[i].startY,
                           w.strings[i].endX, w.strings[i].endY) < 15 * 15}
    IN  IF hits = {} THEN 0 ELSE CHOOSE i \in hits : \A j \in hits : i <= j

\* findStringAtX: the column |x - (i + 0.5) W / n| < W / (2 n), or -1
findStringAtX(w, x) ==
    LET n == Len(w.strings)
        hits == {i \in 0 .. n - 1 : Abs(2 * n * x - (2 * i + 1) * CanvasWidth) < CanvasWidth}
    IN  IF hits = {} THEN -1 ELSE CHOOSE i \in hits : \A j \in hits : i <= j

Ref(i) == [index |-> i, stale |-> FALSE]

\* selectedStringIndex = idx; selectedStringIndices = [idx]; updateSelection()
selectOnly(w, idx) ==
    updateSelection([w EXCEPT !.im.selectedStringIndex = idx,
                              !.im.selectedStringIndices = <<idx>>])

handleDrawModeMousePressed(w, mouseX, mouseY, shiftKey) ==
    LET e == findEndpointAtPosition(w, mouseX, mouseY)
        u == findUnplacedDrawString(w)
        h == findStringAtPosition(w, mouseX, mouseY)
    IN  IF e # 0 THEN
            LET s == w.strings[e]
                atStart == isNearPoint(mouseX, mouseY, s.startX, s.startY, ENDPOINT_GRAB_THRESHOLD)
                grabbed == [w EXCEPT !.im.draggedString = Ref(e - 1),
                                     !.strings[e] = IF atStart
                                                    THEN [@ EXCEPT !.isDraggingStart = TRUE]
                                                    ELSE [@ EXCEPT !.isDraggingEnd = TRUE]]
            IN  selectOnly(grabbed, s.index)
        ELSE IF shiftKey THEN
            IF u # 0 THEN
                LET placing == [w EXCEPT !.im.placingString = TRUE,
                                         !.im.currentStringIndex = w.strings[u].index,
                                         !.im.placedStartPoint = TRUE,
                                         !.strings[u] = [@ EXCEPT !.startX = mouseX,
                                                                  !.startY = mouseY,
                                                                  !.endX = mouseX,
                                                                  !.endY = mouseY]]
                IN  selectOnly(placing, w.strings[u].index)
            ELSE w
        ELSE IF h # 0 THEN pluck(selectOnly(w, w.strings[h].index), h - 1)
        ELSE w

\* mutant: with nothing captured the drag moves the end of the selected string
handleDrawModeMouseDragged_freeDrag(w, mouseX, mouseY, duePluck) ==
    LET i == w.im.selectedStringIndex + 1
    IN  IF i \in 1 .. Len(w.strings)
        THEN [w EXCEPT !.strings[i] = [@ EXCEPT !.endX = mouseX, !.endY = mouseY]]
        ELSE w

\* duePluck: more than DRAG_PLUCK_INTERVAL has passed since the last drag pluck
handleDrawModeMouseDragged(w, mouseX, mouseY, duePluck) ==
    LET fsl == w.PHYSICS.FULL_STRING_LENGTH
        c == w.im.currentStringIndex
        d == w.im.draggedString
    IN  IF w.im.placingString THEN
            IF c >= 0 /\ c < Len(w.strings)
            THEN [w EXCEPT !.strings[c + 1] =
                     updateCalculations([@ EXCEPT !.endX = mouseX, !.endY = mouseY], fsl)]
            ELSE w
        ELSE IF d.index # -1 THEN
            LET moved ==
                    IF d.stale THEN w
                    ELSE [w EXCEPT !.strings[d.index + 1] =
                             updateCalculations(
                                 IF @.isDraggingStart
                                 THEN [@ EXCEPT !.startX = mouseX, !.startY = mouseY]
                                 ELSE IF @.isDraggingEnd
                                 THEN [@ EXCEPT !.endX = mouseX, !.endY = mouseY]
                                 ELSE @, fsl)]
            IN  IF duePluck
                THEN [pluckRef(moved, d) EXCEPT !.im.lastDragPluckTime = w.clock]
                ELSE moved
        ELSE w

\* The log line of the placing branch calls startX.toFixed: with an endpoint
\* nulled since the press it throws, and the rest of the handler is skipped.
handleDrawModeMouseReleased(w) ==
    LET fsl == w.PHYSICS.FULL_STRING_LENGTH
        c == w.im.currentStringIndex
        exists == c >= 0 /\ c < Len(w.strings)
        recalculated == IF exists
                        THEN [w EXCEPT !.strings[c + 1] = updateCalculations(@, fsl)]
                        ELSE w
        throws == w.im.placingString /\ exists
                  /\ (w.strings[c + 1].startX = NULL \/ w.strings[c + 1].endX = NULL)
        placed == IF w.im.placingString
                  THEN [(IF exists THEN pluck(recalculated, c) ELSE w)
                           EXCEPT !.im.placingString = FALSE,
                                  !.im.currentStringIndex = -1,
                                  !.im.placedStartPoint = FALSE]
                  ELSE w
        d == placed.im.draggedString
        released == IF d.index # -1
                    THEN [(IF d.stale THEN placed
                           ELSE [placed EXCEPT !.strings[d.index + 1] =
                                    [@ EXCEPT !.isDraggingStart = FALSE,
                                              !.isDraggingEnd = FALSE]])
                             EXCEPT !.im.draggedString = NoString]
                    ELSE placed
    IN  IF throws THEN [recalculated EXCEPT !.lastOp.ret = FALSE] ELSE released

\* mutant: deselecting the last selected string leaves the selection empty
toggleSelection_noReselect(w, stringIndex) ==
    LET k == IndexOf(w.im.selectedStringIndices, stringIndex)
    IN  IF k > 0
        THEN [w EXCEPT !.im.selectedStringIndices = Splice(@, k),
                       !.strings[stringIndex + 1] = [@ EXCEPT !.isSelected = FALSE]]
        ELSE [w EXCEPT !.im.selectedStringIndices = Append(@, stringIndex),
                       !.strings[stringIndex + 1] = [@ EXCEPT !.isSelected = TRUE]]

\* handleMousePressed, the isMultiSelect branch
toggleSelection(w, stringIndex) ==
    LET k == IndexOf(w.im.selectedStringIndices, stringIndex)
        rest == Splice(w.im.selectedStringIndices, k)
    IN  IF k > 0
        THEN IF Len(rest) = 0
             THEN [w EXCEPT !.im.selectedStringIndices = <<stringIndex>>,
                            !.strings[stringIndex + 1] = [@ EXCEPT !.isSelected = TRUE]]
             ELSE [w EXCEPT !.im.selectedStringIndices = rest,
                            !.strings[stringIndex + 1] = [@ EXCEPT !.isSelected = FALSE]]
        ELSE [w EXCEPT !.im.selectedStringIndices = Append(@, stringIndex),
                       !.strings[stringIndex + 1] = [@ EXCEPT !.isSelected = TRUE]]

\* handleMousePressed, the ADJUST branch after the pluck: which capo is grabbed
grabCapo(w, stringIndex, mouseY) ==
    LET fsl == w.PHYSICS.FULL_STRING_LENGTH
        s == w.strings[stringIndex + 1]
        lowerCapoY == mmToScreenY(s.lowerCapoMm, CanvasHeight, fsl)
        upperCapoY == mmToScreenY(s.upperCapoMm, CanvasHeight, fsl)
        midY == (lowerCapoY + upperCapoY) \div 2
        distToLower == Abs(mouseY * 1000 - lowerCapoY)
        distToUpper == Abs(mouseY * 1000 - upperCapoY)
    IN  IF mouseY * 1000 > midY \/ (distToLower < distToUpper /\ distToLower < 100 * 1000)
        THEN [w EXCEPT !.strings[stringIndex + 1] = [@ EXCEPT !.isDraggingLowerCapo = TRUE],
                       !.im.draggedString = Ref(stringIndex),
                       !.im.draggedCapo = "lower"]
        ELSE [w EXCEPT !.strings[stringIndex + 1] = [@ EXCEPT !.isDraggingUpperCapo = TRUE],
                       !.im.draggedString = Ref(stringIndex),
                       !.im.draggedCapo = "upper"]

handleMousePressed(w, mouseX, mouseY, isMultiSelect, shiftKey) ==
    LET stringIndex == findStringAtX(w, mouseX)
        primary == [w EXCEPT !.im.selectedStringIndex = stringIndex]
        selected ==
            IF isMultiSelect THEN toggleSelection(primary, stringIndex)
            ELSE [primary EXCEPT
                    !.im.selectedStringIndices = <<stringIndex>>,
                    !.strings = [i \in 1 .. Len(w.strings) |->
                                    [w.strings[i] EXCEPT !.isSelected = (i = stringIndex + 1)]]]
    IN  IF w.im.mode = DRAW THEN handleDrawModeMousePressed(w, mouseX, mouseY, shiftKey)
        ELSE IF stringIndex = -1 THEN w
        ELSE IF w.im.mode = PLUCK THEN pluck(selected, stringIndex)
        ELSE IF w.im.mode = ADJUST THEN grabCapo(pluck(selected, stringIndex), stringIndex, mouseY)
        ELSE selected

handleMouseDragged(w, mouseX, mouseY, duePluck) ==
    LET fsl == w.PHYSICS.FULL_STRING_LENGTH
        d == w.im.draggedString
        newPositionMm == screenYToMm(mouseY, CanvasHeight, fsl)
        moved ==
            IF d.stale THEN w
            ELSE IF w.im.draggedCapo = "lower"
            THEN [w EXCEPT !.strings[d.index + 1] = setLowerCapoPosition(@, newPositionMm, fsl)]
            ELSE IF w.im.draggedCapo = "upper"
            THEN [w EXCEPT !.strings[d.index + 1] = setUpperCapoPosition(@, newPositionMm, fsl)]
            ELSE w
    IN  IF w.im.mode = DRAW THEN handleDrawModeMouseDragged(w, mouseX, mouseY, duePluck)
        ELSE IF d.index = -1 \/ w.im.mode # ADJUST THEN w
        ELSE IF duePluck THEN [pluckRef(moved, d) EXCEPT !.im.lastDragPluckTime = w.clock]
        ELSE moved

handleMouseReleased(w) ==
    LET d == w.im.draggedString
    IN  IF w.im.mode = DRAW THEN handleDrawModeMouseReleased(w)
        ELSE IF d.index # -1
        THEN [(IF d.stale THEN w
               ELSE [w EXCEPT !.strings[d.index + 1] =
                        [@ EXCEPT !.isDraggingLowerCapo = FALSE,
                                  !.isDraggingUpperCapo = FALSE]])
                 EXCEPT !.im.draggedString = NoString,
                        !.im.draggedCapo = "null"]
        ELSE w

setMode(w, mode) ==
    IF mode \in {PLUCK, ADJUST, PATTERN, DRAW} THEN [w EXCEPT !.im.mode = mode] ELSE w

\* shiftStringSemitones (string.js)
shiftStringSemitones(s, semitones, fsl) ==
    LET newMidi == s.targetMidiNote + semitones * 100
        s1 == [s EXCEPT !.targetMidiNote = newMidi,
                        !.targetFrequency = midiToFrequency(newMidi)]
        s2 == [s1 EXCEPT !.targetLengthMm = calculateLengthFromFrequency(s1, s1.targetFrequency)]
    IN  initializeCapoPositions(s2, fsl)

\* getSelectedString: the 0-based index of the primary selection, or -1 for null
getSelectedString(w) ==
    IF w.im.selectedStringIndex >= 0 /\ w.im.selectedStringIndex < Len(w.strings)
    THEN w.im.selectedStringIndex ELSE -1

\* mutant: the arrow keys leave the primary selection where it is
navigateTo_stay(w, newIndex) == w

\* selectedStringIndex = newIndex; updateSelection(); pluck the selected string
navigateTo(w, newIndex) ==
    LET w1 == updateSelection([w EXCEPT !.im.selectedStringIndex = newIndex])
    IN  IF getSelectedString(w1) # -1 THEN pluck(w1, getSelectedString(w1)) ELSE w1

\* handleKeyPressed, the Delete/Backspace branch in draw mode
deleteSelectedDrawStrings(w) ==
    [w EXCEPT !.strings =
        [i \in 1 .. Len(w.strings) |->
            IF Contains(w.im.selectedStringIndices, i - 1) /\ w.strings[i].drawMode
            THEN [w.strings[i] EXCEPT !.startX = NULL, !.startY = NULL,
                                      !.endX = NULL, !.endY = NULL]
            ELSE w.strings[i]]]

\* handleKeyPressed for the keys of the key inputs ('t', the audio test, is
\* not among them)
handleKeyPressed(w, key, shiftKey) ==
    LET fsl == w.PHYSICS.FULL_STRING_LENGTH
        selected == getSelectedString(w)
        cur == w.im.selectedStringIndex
        left == {j \in 0 .. cur - 1 : j < Len(w.strings) /\ Placed(w.strings[j + 1])}
        right == {j \in cur + 1 .. Len(w.strings) - 1 : j >= 0 /\ Placed(w.strings[j + 1])}
        step(delta) ==
            IF w.im.activeCapo = "lower"
            THEN [w EXCEPT !.strings[selected + 1] =
                     setLowerCapoPosition(@, @.lowerCapoMm + delta, fsl)]
            ELSE [w EXCEPT !.strings[selected + 1] =
                     setUpperCapoPosition(@, @.upperCapoMm + delta, fsl)]
        shifted(semitones) ==
            [w EXCEPT !.strings[selected + 1] = shiftStringSemitones(@, semitones, fsl)]
    IN  CASE key = "1" -> setMode(w, PLUCK)
          [] key = "2" -> setMode(w, ADJUST)
          [] key = "3" -> setMode(w, PATTERN)
          [] key = "4" -> setMode(w, DRAW)
          [] key = "ArrowLeft" ->
                IF w.im.mode = DRAW
                THEN IF left = {} THEN w
                     ELSE navigateTo(w, CHOOSE j \in left : \A k \in left : k <= j)
                ELSE IF cur > 0 THEN navigateTo(w, cur - 1) ELSE w
          [] key = "ArrowRight" ->
                IF w.im.mode = DRAW
                THEN IF right = {} THEN w
                     ELSE navigateTo(w, CHOOSE j \in right : \A k \in right : j <= k)
                ELSE IF cur < Len(w.strings) - 1 THEN navigateTo(w, cur + 1) ELSE w
          [] key = "ArrowUp" ->
                IF shiftKey
                THEN LET w1 == [w EXCEPT !.im.activeCapo = "upper"]
                     IN  IF selected # -1 THEN pluck(w1, selected) ELSE w1
                ELSE IF selected # -1 THEN pluck(step(-10), selected) ELSE w
          [] key = "ArrowDown" ->
                IF shiftKey
                THEN LET w1 == [w EXCEPT !.im.activeCapo = "lower"]
                     IN  IF selected # -1 THEN pluck(w1, selected) ELSE w1
                ELSE IF selected # -1 THEN pluck(step(10), selected) ELSE w
          [] key = "PageUp" -> IF selected # -1 THEN pluck(shifted(12), selected) ELSE w
          [] key = "PageDown" -> IF selected # -1 THEN pluck(shifted(-12), selected) ELSE w
          [] key \in {"+", "="} -> IF selected # -1 THEN pluck(shifted(1), selected) ELSE w
          [] key \in {"-", "_"} -> IF selected # -1 THEN pluck(shifted(-1), selected) ELSE w
          [] key = " " -> IF selected # -1 THEN pluck(w, selected) ELSE w
          [] key \in {"Delete", "Backspace"} ->
                IF w.im.mode = DRAW THEN deleteSelectedDrawStrings(w) ELSE w
          [] OTHER -> w

-----------------------------------------------------------------------------
(* string.js: tuning functions *)

\* SCALES[name].intervals (constants.js)
SCALES ==
    [chromatic |-> <<0, 1, 2, 3, 4, 5, 6, 7, 8, 9, 10, 11>>,
     major |-> <<0, 2, 4, 5, 7, 9, 11>>,
     minor |-> <<0, 2, 3, 5, 7, 8, 10>>,
     pentatonicMajor |-> <<0, 2, 4, 7, 9>>,
     pentatonicMinor |-> <<0, 3, 5, 7, 10>>,
     blues |-> <<0, 3, 5, 6, 7, 10>>,
     wholeTone |-> <<0, 2, 4, 6, 8, 10>>,
     harmonicMinor |-> <<0, 2, 3, 5, 7, 8, 11>>,
     dorian |-> <<0, 2, 3, 5, 7, 9, 10>>,
     phrygian |-> <<0, 1, 3, 5, 7, 8, 10>>,
     lydian |-> <<0, 2, 4, 6, 7, 9, 11>>,
     mixolydian |-> <<0, 2, 4, 5, 7, 9, 10>>,
     locrian |-> <<0, 1, 3, 5, 6, 8, 10>>,
     harmonicSeries |-> <<0, 12, 19, 24, 28, 31, 34, 36, 38, 40>>]

OCTAVE_RANGE == 6

\* mutant: the octave loop is missing
wrapOctaves_noWrap(targetMidi, maxMidi) == targetMidi

\* while (targetMidi >= maxMidi) targetMidi -= OCTAVE_RANGE * 12
RECURSIVE wrapOctaves(_, _)
wrapOctaves(targetMidi, maxMidi) ==
    IF targetMidi >= maxMidi THEN wrapOctaves(targetMidi - OCTAVE_RANGE * 12, maxMidi)
    ELSE targetMidi

\* applyScale: the MIDI note (in semitones) given to the string at `index`
scaleTargetMidi(scaleName, rootMidiArg, index) ==
    LET rootMidi == IF rootMidiArg = 0 THEN 36 ELSE rootMidiArg
        intervals == SCALES[scaleName]
        scaleIndex == index % Len(intervals)
        octave == index \div Len(intervals)
        maxMidi == rootMidi + OCTAVE_RANGE * 12
    IN  wrapOctaves(rootMidi + intervals[scaleIndex + 1] + octave * 12, maxMidi)

\* applyScale(strings, scaleName, rootMidi)
applyScale(strs, scaleName, rootMidiArg, fsl) ==
    IF scaleName \notin DOMAIN SCALES THEN strs
    ELSE [i \in 1 .. Len(strs) |->
            LET targetMidi == scaleTargetMidi(scaleName, rootMidiArg, i - 1) * 100
                targetFreq == midiToFrequency(targetMidi)
                idealLength == calculateLengthFromFrequency(strs[i], targetFreq)
            IN  initializeCapoPositions(
                    [strs[i] EXCEPT !.targetMidiNote = targetMidi,
                                    !.targetFrequency = targetFreq,
                                    !.targetLengthMm = idealLength], fsl)]

-----------------------------------------------------------------------------
(* main.js (src/unnamed/part_001): class WallHarpSimulator *)

MIN_STRING_SPACING == 10

\* this.strings = ...; this.interactionManager.strings = this.strings.
\* A string object the interaction manager still holds is now a stale one.
replaceStrings(w, newStrings) ==
    [w EXCEPT !.strings = newStrings,
              !.im.draggedString = IF @.index # -1 THEN [@ EXCEPT !.stale = TRUE] ELSE @]

\* mutant: the selection is kept over the replacement
resetSelection_keep(w) ==
    updateSelection(w)

\* selection reset to the first string, and updateSelection()
resetSelection(w) ==
    updateSelection([w EXCEPT !.app.selectedStringIndex = 0,
                              !.im.selectedStringIndex = 0,
                              !.im.selectedStringIndices = <<0>>])

\* mutant: new chromatic strings without the draw-mode data of the old ones
recreateStrings_noCarry(w, count) ==
    createChromaticStrings(count, w.app.currentMaterial, w.app.currentGauge,
                           w.app.currentTension, w.PHYSICS.FULL_STRING_LENGTH)

\* new chromatic strings, with the draw-mode data of the old ones restored
recreateStrings(w, count) ==
    LET fsl == w.PHYSICS.FULL_STRING_LENGTH
        fresh == createChromaticStrings(count, w.app.currentMaterial, w.app.currentGauge,
                                        w.app.currentTension, fsl)
    IN  [i \in 1 .. count |->
            IF i <= Len(w.strings) /\ w.strings[i].drawMode
            THEN updateCalculations(
                     [fresh[i] EXCEPT !.drawMode = TRUE,
                                      !.startX = w.strings[i].startX,
                                      !.startY = w.strings[i].startY,
                                      !.endX = w.strings[i].endX,
                                      !.endY = w.strings[i].endY], fsl)
            ELSE fresh[i]]

\* HarpAudioEngine.initialize up to its first await
initialize(w, numStrings) ==
    IF w.audio.initialized THEN w
    ELSE [w EXCEPT !.audio.initializing = Append(@, numStrings)]

\* HarpAudioEngine.dispose
dispose(w) ==
    IF ~w.audio.initialized THEN w ELSE [w EXCEPT !.audio.initialized = FALSE]

setStringCount(w, count) ==
    LET w1 == replaceStrings([w EXCEPT !.app.numStrings = count], recreateStrings(w, count))
        w2 == resetSelection(w1)
    IN  IF w.audio.initialized THEN initialize(dispose(w2), count) ELSE w2

enableDrawModeForStrings(w) ==
    [w EXCEPT !.strings = [i \in 1 .. Len(w.strings) |-> [w.strings[i] EXCEPT !.drawMode = TRUE]]]

\* WallHarpSimulator.setMode, the mode buttons
appSetMode(w, mode) ==
    LET w1 == setMode(w, mode)
        hasDrawModeStrings ==
            \E i \in 1 .. Len(w.strings) : w.strings[i].drawMode /\ w.strings[i].startX # NULL
    IN  IF mode = DRAW /\ ~hasDrawModeStrings THEN enableDrawModeForStrings(w1) ELSE w1

applyScalePreset(w, scaleName, rootMidiArg) ==
    [w EXCEPT !.strings = applyScale(w.strings, scaleName,
                                     IF rootMidiArg = 0 THEN 48 ELSE rootMidiArg,
                                     w.PHYSICS.FULL_STRING_LENGTH)]

resetTuning(w) ==
    resetSelection(replaceStrings(w,
        createChromaticStrings(w.app.numStrings, w.app.currentMaterial, w.app.currentGauge,
                               w.app.currentTension, w.PHYSICS.FULL_STRING_LENGTH)))

setMaterialProperties(w, material, gauge, tension) ==
    [w EXCEPT !.app.currentMaterial = material,
              !.app.currentGauge = gauge,
              !.app.currentTension = tension,
              !.strings = [i \in 1 .. Len(w.strings) |->
                              setMaterial(w.strings[i], material, gauge, tension,
                                          w.PHYSICS.FULL_STRING_LENGTH)]]

\* feet to mm on the 1 mm grid: ft * 304.8, with ft given in tenths of a foot
FeetToMm(ft10) == (ft10 * 3048) \div 100

setWallDimensions(w, widthFt10, heightFt10) ==
    LET w1 == [w EXCEPT !.app.wallWidthMm = FeetToMm(widthFt10),
                        !.PHYSICS.WALL_WIDTH = FeetToMm(widthFt10),
                        !.PHYSICS.FULL_STRING_LENGTH = FeetToMm(heightFt10)]
        maxStrings == w1.app.wallWidthMm \div MIN_STRING_SPACING
    IN  IF w1.app.numStrings > maxStrings THEN setStringCount(w1, maxStrings)
        ELSE resetSelection(replaceStrings(w1, recreateStrings(w1, w1.app.numStrings)))

toggleReverseCapoMode(w) ==
    LET on == ~w.app.reverseCapoMode
        fresh == createChromaticStrings(w.app.numStrings, w.app.currentMaterial,
                     w.app.currentGauge, w.app.currentTension, w.PHYSICS.FULL_STRING_LENGTH)
        swapped == [i \in 1 .. Len(fresh) |->
                       [fresh[i] EXCEPT !.lowerCapoMm = fresh[i].upperCapoMm,
                                        !.upperCapoMm = fresh[i].lowerCapoMm]]
    IN  resetSelection(replaceStrings([w EXCEPT !.app.reverseCapoMode = on],
                                      IF on THEN swapped ELSE fresh))

\* WallHarpSimulator.handleMousePressed (left button, no zoom or pan)
appHandleMousePressed(w, mouseX, mouseY, isMultiSelect, shiftKey) ==
    LET w1 == handleMousePressed(w, mouseX, mouseY, isMultiSelect, shiftKey)
    IN  [w1 EXCEPT !.app.selectedStringIndex = w1.im.selectedStringIndex]

\* HarpAudioEngine.initialize after its awaits: the synths are created, the
\* engine is marked initialized and the test chord is scheduled
initializeComplete(w) ==
    [w EXCEPT !.audio.initializing = Tail(@),
              !.audio.numSynths = Head(w.audio.initializing),
              !.audio.initialized = TRUE,
              !.audio.testChord = 3]

\* playTestChord and its two timers: one note per step, C (synth 0), E (1), G (2)
testChordStep(w) ==
    LET note == 3 - w.audio.testChord
        played == [w EXCEPT !.lastOp.sounded =
                      IF pluckString(w.audio, note, 26163) THEN Append(@, note) ELSE @]
    IN  IF w.audio.testChord = 3 /\ w.audio.numSynths < 3
        THEN [w EXCEPT !.audio.testChord = 0]
        ELSE [played EXCEPT !.audio.testChord = @ - 1]

\* the timer set by HarpString.pluck
pluckTimer(w, i) ==
    [w EXCEPT !.strings[i] = [@ EXCEPT !.isPlaying = FALSE, !.timerPending = FALSE]]

-----------------------------------------------------------------------------
(* Events.  Each is one handler run to completion; the inputs are drawn   *)
(* from the set the specification passes.                                 *)

Modes == {PLUCK, ADJUST, PATTERN, DRAW}

\* concurrent audio initializations in flight
MaxPendingInit == 1

Init ==
    /\ PHYSICS = InitPHYSICS
    /\ app = InitApp
    /\ im = InitIM
    /\ audio = InitAudio
    /\ exported = NoConfig
    /\ mouse = InitMouse
    /\ clock = ClockStart
    /\ sequencer = NewSequencer
    /\ lastOp = Op("new")
    /\ strings = createChromaticStrings(MaxStrings, DEFAULT_MATERIAL, DEFAULT_GAUGE,
                                        DEFAULT_TENSION, DEFAULT_FULL_STRING_LENGTH)

\* what a press met: the mode, the column it hit, its height, the modifier keys, and
\* whether it is a multi-select press on the only selected string
PressInfo(mouseX, mouseY, isMultiSelect, shiftKey) ==
    LET hit == findStringAtX(World, mouseX)
    IN  [mode |-> im.mode, hit |-> hit, x |-> mouseX, y |-> mouseY, multi |-> isMultiSelect,
         shift |-> shiftKey,
         only |-> im.mode # DRAW /\ isMultiSelect /\ hit # -1
                  /\ im.selectedStringIndices = <<hit>>]

MousePressed(points) ==
    /\ mouse.button = "up"
    /\ mouse.presses < MaxPresses
    /\ \E pt \in points, isMultiSelect \in BOOLEAN, shiftKey \in BOOLEAN :
          Becomes([appHandleMousePressed(
                       [Begin("mousePressed") EXCEPT
                           !.lastOp.ret = PressInfo(pt[1], pt[2], isMultiSelect, shiftKey)],
                       pt[1], pt[2], isMultiSelect, shiftKey)
                      EXCEPT !.mouse = [button |-> "down", presses |-> mouse.presses + 1]])

MouseDragged(points) ==
    /\ mouse.button = "down"
    /\ \E pt \in points, duePluck \in BOOLEAN :
          Becomes(handleMouseDragged(Begin("mouseDragged"), pt[1], pt[2], duePluck))

MouseReleased ==
    /\ mouse.button = "down"
    /\ Becomes([handleMouseReleased(Begin("mouseReleased")) EXCEPT !.mouse.button = "up"])

KeyPressed(keys) ==
    \E key \in keys, shiftKey \in BOOLEAN :
        Becomes(handleKeyPressed(Begin("keyPressed"), key, shiftKey))

ModeButton ==
    \E mode \in Modes : Becomes(appSetMode(Begin("setMode"), mode))

StringCountSlider ==
    /\ audio.initialized => Len(audio.initializing) < MaxPendingInit
    /\ \E count \in 1 .. MaxStrings :
          Becomes(setStringCount(
                      [Begin("setStringCount") EXCEPT
                          !.lastOp.ret = [primary |-> im.selectedStringIndex,
                                          selected |-> im.selectedStringIndices]],
                      count))

ResetTuningButton ==
    Becomes(resetTuning(Begin("resetTuning")))

ToggleReverseCapo ==
    Becomes(toggleReverseCapoMode(Begin("toggleReverseCapoMode")))

InitAudioClick ==
    /\ Len(audio.initializing) < MaxPendingInit
    /\ Becomes(initialize(Begin("initAudio"), Len(strings)))

InitAudioComplete ==
    /\ audio.initializing # <<>>
    /\ Becomes(initializeComplete(Begin("initAudioComplete")))

TestChordTimer ==
    /\ audio.testChord > 0
    /\ Becomes(testChordStep(Begin("testChord")))

PluckTimer ==
    \E i \in 1 .. Len(strings) :
        /\ strings[i].timerPending
        /\ Becomes(pluckTimer(Begin("pluckTimer"), i))

-----------------------------------------------------------------------------
(* SpecPointer: pointer, keyboard and mode events, with the string count  *)
(* slider and the reset button replacing the collection underneath them.  *)
(* Audio is never initialized here, so pluck() has no effect.             *)

\* a low point on the column of the first string and a high point on the
\* column of the second
PointerPoints == {<<250, 560>>, <<750, 100>>}

PointerKeys == {"1", "2", "3", "4", "ArrowLeft", "ArrowRight", "Delete"}

NextPointer ==
    \/ MousePressed(PointerPoints)
    \/ MouseDragged(PointerPoints)
    \/ MouseReleased
    \/ KeyPressed(PointerKeys)
    \/ ModeButton
    \/ StringCountSlider
    \/ ResetTuningButton

SpecPointer == Init /\ [][NextPointer]_vars

\* C3: the selected indices are never empty, whatever single-select presses,
\* multi-select toggles and collection replacements happened; a multi-select
\* press on the only selected string leaves that string selected.
C3_SelectionNeverEmpty ==
    /\ Len(im.selectedStringIndices) >= 1
    /\ (lastOp.op = "mousePressed" /\ lastOp.ret.only)
          => Contains(im.selectedStringIndices, lastOp.ret.hit)

\* a press selected the second string alone, and a multi-select press then hit
\* it, the only selected string: it is still selected
C3_Witness ==
    /\ lastOp.op = "mousePressed"
    /\ lastOp.ret.only
    /\ lastOp.ret.hit = 1
    /\ im.selectedStringIndices = <<1>>
    /\ strings[2].isSelected

\* what updateCalculations would compute from the current fields of s
Fresh(s) == updateCalculations(s, PHYSICS.FULL_STRING_LENGTH)

\* C4: derived fields are never stale: every string's playableLengthMm is what
\* updateCalculations would compute from its current capos, endpoints and
\* draw-mode flag, and its frequency corresponds to that length.
C4_DerivedNeverStale ==
    \A i \in 1 .. Len(strings) :
        /\ strings[i].playableLengthMm = Fresh(strings[i]).playableLengthMm
        /\ strings[i].actualFrequency = Fresh(strings[i]).actualFrequency

\* C5: after every pointer release, whatever the mode at the release and the
\* mode changes since the press, no string has a drag flag set, no string or
\* capo is captured and the placing sub-state is inactive.
C5_ReleaseClearsEverything ==
    lastOp.op = "mouseReleased" =>
        /\ \A i \in 1 .. Len(strings) :
              /\ ~strings[i].isDraggingLowerCapo
              /\ ~strings[i].isDraggingUpperCapo
              /\ ~strings[i].isDraggingStart
              /\ ~strings[i].isDraggingEnd
        /\ im.draggedString = NoString
        /\ im.draggedCapo = "null"
        /\ ~im.placingString

-----------------------------------------------------------------------------
(* Waveform patterns (constants.js WAVEFORMS, string.js applyWaveform) *)

\* WAVEFORMS[type](index, total, amplitude, offset) on the 1 mm grid, for the
\* three generators that are rational functions of index / total
WAVEFORMS(waveformType, index, total, amplitude, offset) ==
    CASE waveformType = "sawtooth" -> ((2 * index - total) * amplitude) \div total + offset
      [] waveformType = "triangle" ->
            (IF 2 * index < total THEN (4 * index * amplitude) \div total
             ELSE (4 * (total - index) * amplitude) \div total) - amplitude + offset
      [] waveformType = "square" ->
            (IF 2 * index < total THEN amplitude ELSE -amplitude) + offset

\* the keys of WAVEFORMS
WaveformNames == {"sine", "sawtooth", "triangle", "square", "random"}

\* the playable length applyWaveform gives every string
WAVEFORM_PLAYABLE_LENGTH == 500

\* applyWaveform(strings, waveformType, amplitude): offset is not passed
applyWaveform(strs, waveformType, amplitudeArg, fsl) ==
    LET amplitude == IF amplitudeArg = 0 THEN 400 ELSE amplitudeArg
        offset == fsl \div 2
    IN  IF waveformType \notin WaveformNames THEN strs
        ELSE
        [i \in 1 .. Len(strs) |->
            LET centerPosition == WAVEFORMS(waveformType, i - 1, Len(strs), amplitude, offset)
                lower == clamp(centerPosition - WAVEFORM_PLAYABLE_LENGTH \div 2,
                               MIN_CAPO_DISTANCE,
                               fsl - MIN_CAPO_DISTANCE - WAVEFORM_PLAYABLE_LENGTH)
            IN  updateCalculations(
                    [strs[i] EXCEPT !.lowerCapoMm = lower,
                                    !.upperCapoMm = lower + WAVEFORM_PLAYABLE_LENGTH], fsl)]

-----------------------------------------------------------------------------
(* SpecApp: the controls that rebuild or retune the whole collection.     *)

WaveformTypes == {"sawtooth", "triangle", "square"}

\* the amplitude slider (mm); 0 takes the default
WaveformAmplitudes == {0, 1000}

ScalePresets == {"chromatic", "harmonicSeries"}

ScaleRoots == {36, 60}

\* wall width and height in tenths of a foot: the default wall and a smaller one
WallSizes == {<<257, 70>>, <<100, 60>>}

ApplyWaveformButton ==
    \E type \in WaveformTypes, amplitude \in WaveformAmplitudes :
        Becomes([Begin("applyWaveform") EXCEPT
                    !.strings = applyWaveform(strings, type, amplitude,
                                              PHYSICS.FULL_STRING_LENGTH)])

ScalePresetSelect ==
    \E scaleName \in ScalePresets, rootMidi \in ScaleRoots :
        Becomes(applyScalePreset(Begin("applyScalePreset"), scaleName, rootMidi))

ApplyMaterialButton ==
    \E mgt \in MaterialChoices :
        Becomes(setMaterialProperties(Begin("setMaterialProperties"), mgt[1], mgt[2], mgt[3]))

ApplyWallDimensions ==
    /\ audio.initialized => Len(audio.initializing) < MaxPendingInit
    /\ \E size \in WallSizes :
          Becomes(setWallDimensions(Begin("setWallDimensions"), size[1], size[2]))

NextApp ==
    \/ StringCountSlider
    \/ ResetTuningButton
    \/ ToggleReverseCapo
    \/ ApplyWaveformButton
    \/ ScalePresetSelect
    \/ ApplyMaterialButton
    \/ ApplyWallDimensions

SpecApp == Init /\ [][NextApp]_vars

\* C2: in every reachable application state every string has
\* 0 <= lowerCapoMm < upperCapoMm <= FULL_STRING_LENGTH and a playable span of
\* at least MIN_PLAYABLE_LENGTH.
C2_CapoInvariantEverywhere ==
    \A i \in 1 .. Len(strings) :
        /\ 0 <= strings[i].lowerCapoMm
        /\ strings[i].lowerCapoMm < strings[i].upperCapoMm
        /\ strings[i].upperCapoMm <= PHYSICS.FULL_STRING_LENGTH
        /\ strings[i].upperCapoMm - strings[i].lowerCapoMm >= MIN_PLAYABLE_LENGTH

-----------------------------------------------------------------------------
(* SpecAudio: plucks from the pointer and the keyboard around the          *)
(* asynchronous initialization of the audio engine.                        *)

AudioPoints == {<<250, 560>>, <<750, 100>>}

\* the mode keys for Pluck and Adjust, and the pluck key
AudioKeys == {"1", "2", " "}

NextAudio ==
    \/ InitAudioClick
    \/ InitAudioComplete
    \/ TestChordTimer
    \/ PluckTimer
    \/ MousePressed(AudioPoints)
    \/ MouseDragged(AudioPoints)
    \/ MouseReleased
    \/ KeyPressed(AudioKeys)
    \/ StringCountSlider

SpecAudio == Init /\ [][NextAudio]_vars

\* the playing state of every string is the same before and after the step
PlayingUnchanged ==
    /\ Len(strings') = Len(strings)
    /\ \A i \in 1 .. Len(strings) :
          /\ strings'[i].isPlaying = strings[i].isPlaying
          /\ strings'[i].playingAmplitude = strings[i].playingAmplitude
          /\ strings'[i].timerPending = strings[i].timerPending

\* C6: a pluck requested while the audio engine is not initialized triggers
\* no synth and leaves isPlaying and playingAmplitude of every string as they
\* were, and it is not queued: the step that completes the initialization
\* triggers no synth and starts no string playing.
C6_PluckBeforeInitDropped ==
    [][ /\ (lastOp'.plucked # <<>> /\ ~audio.initialized)
            => (lastOp'.sounded = <<>> /\ PlayingUnchanged)
        /\ lastOp'.op = "initAudioComplete"
            => (lastOp'.sounded = <<>> /\ PlayingUnchanged) ]_vars

\* a pluck was requested while an initialization was still in flight
C6_Witness ==
    /\ lastOp.plucked # <<>>
    /\ ~audio.initialized
    /\ audio.initializing # <<>>

-----------------------------------------------------------------------------
(* Export and import of configurations (storage.js, as given in           *)
(* CHANGELOG.md) and HarpString.setStringData.  A parsed JSON object is a *)
(* record whose domain is the set of keys present; JSON.stringify and     *)
(* JSON.parse carry the finite numbers, strings, booleans and nulls of    *)
(* these objects unchanged.                                               *)

\* obj.key !== undefined
Has(obj, key) == key \in DOMAIN obj

\* HarpString.setStringData(data)
setStringData(s, data, fsl) ==
    LET s1 == IF Has(data, "lowerCapoMm") THEN [s EXCEPT !.lowerCapoMm = data.lowerCapoMm] ELSE s
        s2 == IF Has(data, "upperCapoMm") THEN [s1 EXCEPT !.upperCapoMm = data.upperCapoMm] ELSE s1
        s3 == IF Has(data, "targetMidiNote")
              THEN [s2 EXCEPT !.targetMidiNote = data.targetMidiNote] ELSE s2
        s4 == IF Has(data, "material") /\ Has(data, "gauge") /\ Has(data, "tension")
              THEN setMaterial(s3, data.material, data.gauge, data.tension, fsl) ELSE s3
    IN  updateCalculations(s4, fsl)

\* exportConfiguration(strings), version 2.0, after JSON.parse
exportConfiguration(strs) ==
    [version |-> "2.0",
     numStrings |-> Len(strs),
     strings |-> [i \in 1 .. Len(strs) |->
        [index |-> strs[i].index,
         lowerCapoMm |-> strs[i].lowerCapoMm,
         upperCapoMm |-> strs[i].upperCapoMm,
         targetMidiNote |-> strs[i].targetMidiNote,
         actualFrequency |-> strs[i].actualFrequency,
         drawMode |-> strs[i].drawMode,
         startX |-> strs[i].startX, startY |-> strs[i].startY,
         endX |-> strs[i].endX, endY |-> strs[i].endY,
         material |-> strs[i].material,
         gauge |-> strs[i].gauge,
         tension |-> strs[i].tension]]]

\* the body of the forEach of importConfiguration for one string
importString(s, stringData, fsl) ==
    LET s1 == setStringData(s, stringData, fsl)
        s2 == [s1 EXCEPT !.drawMode = stringData.drawMode,
                         !.startX = stringData.startX, !.startY = stringData.startY,
                         !.endX = stringData.endX, !.endY = stringData.endY]
        s3 == IF Has(stringData, "material") /\ stringData.material # ""
              THEN [s2 EXCEPT !.material = stringData.material] ELSE s2
        s4 == IF Has(stringData, "gauge") /\ stringData.gauge # ""
              THEN [s3 EXCEPT !.gauge = stringData.gauge] ELSE s3
        s5 == IF Has(stringData, "tension") /\ stringData.tension # 0
              THEN [s4 EXCEPT !.tension = stringData.tension] ELSE s4
    IN  IF Has(stringData, "drawMode") THEN updateCalculations(s5, fsl) ELSE s1

\* the forEach of importConfiguration
importStrings(strs, config, fsl) ==
    [i \in 1 .. Len(strs) |->
        IF i <= Len(config.strings) THEN importString(strs[i], config.strings[i], fsl)
        ELSE strs[i]]

\* mutant: the import without the string count check
importConfiguration_noCountCheck(strs, config, fsl) ==
    IF ~Has(config, "version") \/ ~Has(config, "strings")
    THEN [ok |-> FALSE, strings |-> strs]
    ELSE [ok |-> TRUE, strings |-> importStrings(strs, config, fsl)]

\* importConfiguration(jsonString, strings): the return value and the strings
importConfiguration(strs, config, fsl) ==
    IF ~Has(config, "version") \/ config.version = "" \/ ~Has(config, "strings")
    THEN [ok |-> FALSE, strings |-> strs]
    ELSE IF ~Has(config, "numStrings") \/ config.numStrings # Len(strs)
    THEN [ok |-> FALSE, strings |-> strs]
    ELSE [ok |-> TRUE, strings |-> importStrings(strs, config, fsl)]

\* loadConfigurationFromFile: the configuration read and the success flag are
\* recorded as the result of the operation
loadConfiguration(w, config) ==
    LET r == importConfiguration(w.strings, config, w.PHYSICS.FULL_STRING_LENGTH)
    IN  [w EXCEPT !.strings = r.strings,
                  !.lastOp.ret = [ok |-> r.ok, config |-> config]]

-----------------------------------------------------------------------------
(* SpecImport: export, import of the exported and of hand-written files,  *)
(* between capo moves and string count changes.                           *)

\* a version 1.0 file for n strings: capo positions and target notes only
V1File(n) ==
    [version |-> "1.0",
     numStrings |-> n,
     strings |-> [i \in 1 .. n |->
        [index |-> i - 1, lowerCapoMm |-> 300, upperCapoMm |-> 900,
         targetMidiNote |-> 4800 + 100 * i, actualFrequency |-> 19133]]]

\* a version 2.0 file for n strings drawn between two endpoints
V2DrawFile(n) ==
    [version |-> "2.0",
     numStrings |-> n,
     strings |-> [i \in 1 .. n |->
        [index |-> i - 1, lowerCapoMm |-> 300, upperCapoMm |-> 900,
         targetMidiNote |-> 4800 + 100 * i, actualFrequency |-> 19133,
         drawMode |-> TRUE, startX |-> 100 * i, startY |-> 100, endX |-> 400, endY |-> 500,
         material |-> "nylon", gauge |-> "heavy", tension |-> 60]]]

\* files without the version key and without the strings key
NoVersionFile(n) == [numStrings |-> n, strings |-> V1File(n).strings]

NoStringsFile(n) == [version |-> "2.0", numStrings |-> n]

ImportFiles ==
    UNION {{V1File(n), V2DrawFile(n), NoVersionFile(n), NoStringsFile(n)} : n \in 1 .. MaxStrings}

\* where a capo is dragged to before an export
ImportCapoPositions == {600}

ExportButton ==
    Becomes([Begin("export") EXCEPT !.exported = exportConfiguration(strings)])

ImportExported ==
    /\ exported # NoConfig
    /\ Becomes(loadConfiguration(Begin("import"), exported))

ImportFile ==
    \E config \in ImportFiles : Becomes(loadConfiguration(Begin("import"), config))

MoveLowerCapo ==
    \E i \in 1 .. Len(strings), pos \in ImportCapoPositions :
        Becomes([Begin("setLowerCapoPosition") EXCEPT
                    !.strings[i] = setLowerCapoPosition(@, pos, PHYSICS.FULL_STRING_LENGTH)])

NextImport ==
    \/ ExportButton
    \/ ImportExported
    \/ ImportFile
    \/ MoveLowerCapo
    \/ StringCountSlider

SpecImport == Init /\ [][NextImport]_vars

\* the configuration lacks version or strings, or is for another string count
Rejected(config, n) ==
    \/ ~Has(config, "version")
    \/ ~Has(config, "strings")
    \/ ~Has(config, "numStrings")
    \/ config.numStrings # n

\* C7: an import of a configuration that lacks version or strings, or whose
\* numStrings differs from the length of the collection, returns false and
\* changes no string.
C7_RejectedImportChangesNothing ==
    [][ (lastOp'.op = "import" /\ Rejected(lastOp'.ret.config, Len(strings)))
            => (~lastOp'.ret.ok /\ strings' = strings) ]_vars

\* a file for one string was refused by a collection of two strings, one of
\* them moved from its initial position
C7_Witness ==
    /\ lastOp.op = "import"
    /\ Has(lastOp.ret.config, "version") /\ Has(lastOp.ret.config, "strings")
    /\ lastOp.ret.config.numStrings = 1
    /\ Len(strings) = 2
    /\ ~lastOp.ret.ok
    /\ strings[1].lowerCapoMm = 600

\* C8: after a successful import of a version 1.0 configuration without
\* draw-mode fields, of the size of the collection, no string is in draw mode.
C8_V1ImportLeavesLinear ==
    (/\ lastOp.op = "import"
     /\ Has(lastOp.ret.config, "version") /\ Has(lastOp.ret.config, "strings")
     /\ lastOp.ret.config.version = "1.0"
     /\ lastOp.ret.config.numStrings = Len(strings))
        => /\ lastOp.ret.ok
           /\ \A i \in 1 .. Len(strings) : ~strings[i].drawMode

\* C9: after the import of the exported configuration into a collection of
\* its size, every string has the exported capo positions, target note,
\* material, gauge, tension, draw-mode flag and endpoints.
C9_ExportImportRoundTrip ==
    (lastOp.op = "import" /\ lastOp.ret.config = exported /\ exported.numStrings = Len(strings))
        => /\ lastOp.ret.ok
           /\ \A i \in 1 .. Len(strings) :
                 LET data == exported.strings[i]
                 IN  /\ strings[i].lowerCapoMm = data.lowerCapoMm
                     /\ strings[i].upperCapoMm = data.upperCapoMm
                     /\ strings[i].targetMidiNote = data.targetMidiNote
                     /\ strings[i].material = data.material
                     /\ strings[i].gauge = data.gauge
                     /\ strings[i].tension = data.tension
                     /\ strings[i].drawMode = data.drawMode
                     /\ strings[i].startX = data.startX /\ strings[i].startY = data.startY
                     /\ strings[i].endX = data.endX /\ strings[i].endY = data.endY

-----------------------------------------------------------------------------
(* SpecScale: applyScale called on collections of every size up to        *)
(* MaxScaleStrings, with every registered scale.                          *)

\* root notes passed to applyScale: C-1, C2 and C4
ScaleRootInputs == {0, 36, 60}

InitScale ==
    /\ PHYSICS = InitPHYSICS
    /\ im = InitIM
    /\ audio = InitAudio
    /\ exported = NoConfig
    /\ mouse = InitMouse
    /\ clock = ClockStart
    /\ sequencer = NewSequencer
    /\ lastOp = Op("new")
    /\ \E n \in 1 .. MaxScaleStrings :
          /\ app = [InitApp EXCEPT !.numStrings = n]
          /\ strings = createChromaticStrings(n, DEFAULT_MATERIAL, DEFAULT_GAUGE,
                                              DEFAULT_TENSION, DEFAULT_FULL_STRING_LENGTH)

CallApplyScale ==
    \E scaleName \in DOMAIN SCALES, rootMidi \in ScaleRootInputs :
        Becomes([Begin("applyScale") EXCEPT
                    !.strings = applyScale(strings, scaleName, rootMidi,
                                           PHYSICS.FULL_STRING_LENGTH),
                    !.lastOp.ret = [scaleName |-> scaleName, rootMidi |-> rootMidi]])

NextScale == CallApplyScale

SpecScale == InitScale /\ [][NextScale]_vars

\* C10: after applyScale(strings, scaleName, rootMidi) every string has its
\* targetMidiNote in [rootMidi, rootMidi + 12 * OCTAVE_RANGE).
C10_ScaleWithinWindow ==
    lastOp.op = "applyScale" =>
        \A i \in 1 .. Len(strings) :
            /\ strings[i].targetMidiNote >= lastOp.ret.rootMidi * 100
            /\ strings[i].targetMidiNote < (lastOp.ret.rootMidi + 12 * OCTAVE_RANGE) * 100

-----------------------------------------------------------------------------
(* Tuning one string by note name or frequency, and Scala scales          *)
(* (string.js).  These functions call the global functions of physics.js, *)
(* not the methods of the string.                                         *)

\* physics.js calculateLengthFromFrequency(frequency): the material, gauge
\* and tension are not passed and take the defaults
physicsCalculateLengthFromFrequency(frequency) ==
    IF frequency = 0 THEN INFINITY
    ELSE (calculateWaveSpeed(DEFAULT_MATERIAL, DEFAULT_GAUGE, DEFAULT_TENSION) * 5000)
            \div frequency

RECURSIVE MidiSearch(_, _, _)
MidiSearch(frequency, lo, hi) ==
    IF lo >= hi THEN lo
    ELSE LET mid == (lo + hi + 1) \div 2
         IN  IF midiToFrequency(mid) <= frequency
             THEN MidiSearch(frequency, mid, hi) ELSE MidiSearch(frequency, lo, mid - 1)

\* mutant: the note is rounded to the semitone
frequencyToMidi_semitone(frequency) ==
    ((MidiSearch(frequency, 0, 14000) + 50) \div 100) * 100

\* frequencyToMidi: 69 + 12 log2(f / 440) on the grid of MIDI cents, as the
\* inverse of midiToFrequency (floor)
frequencyToMidi(frequency) == MidiSearch(frequency, 0, 14000)

\* A note name is the sequence of its characters.
\* String.toUpperCase on the letters the pattern admits
toUpperCase(c) ==
    CASE c = "a" -> "A" [] c = "b" -> "B" [] c = "c" -> "C" [] c = "d" -> "D"
      [] c = "e" -> "E" [] c = "f" -> "F" [] c = "g" -> "G" [] OTHER -> c

NoteLetters == {"A", "B", "C", "D", "E", "F", "G"}

DigitChars == {"0", "1", "2", "3", "4", "5", "6", "7", "8", "9"}

DigitValue(c) ==
    CASE c = "0" -> 0 [] c = "1" -> 1 [] c = "2" -> 2 [] c = "3" -> 3 [] c = "4" -> 4
      [] c = "5" -> 5 [] c = "6" -> 6 [] c = "7" -> 7 [] c = "8" -> 8 [] c = "9" -> 9

RECURSIVE parseInt(_)
parseInt(digits) ==
    IF digits = <<>> THEN 0
    ELSE 10 * parseInt(SubSeq(digits, 1, Len(digits) - 1)) + DigitValue(digits[Len(digits)])

\* noteName.match(/^([A-G]#?)(\d+)$/i): a letter, an optional sharp, digits
noteNameMatch(noteName) ==
    LET sharp == Len(noteName) >= 2 /\ noteName[2] = "#"
        digits == SubSeq(noteName, IF sharp THEN 3 ELSE 2, Len(noteName))
    IN  [ok |-> /\ Len(noteName) >= 2
                /\ toUpperCase(noteName[1]) \in NoteLetters
                /\ digits # <<>>
                /\ \A k \in 1 .. Len(digits) : digits[k] \in DigitChars,
         sharp |-> sharp,
         digits |-> digits]

\* noteNames.indexOf(note) for the upper-cased letter with or without sharp
noteNamesIndexOf(letter, sharp) ==
    LET natural == CASE letter = "C" -> 0 [] letter = "D" -> 2 [] letter = "E" -> 4
                     [] letter = "F" -> 5 [] letter = "G" -> 7 [] letter = "A" -> 9
                     [] letter = "B" -> 11
    IN  IF ~sharp THEN natural
        ELSE IF letter \in {"E", "B"} THEN -1
        ELSE natural + 1

\* setStringToNote(string, noteName): the return value and the string
setStringToNote(s, noteName, fsl) ==
    LET match == noteNameMatch(noteName)
        noteIndex == noteNamesIndexOf(toUpperCase(noteName[1]), match.sharp)
        midiNote == ((parseInt(match.digits) + 1) * 12 + noteIndex) * 100
        s1 == [s EXCEPT !.targetMidiNote = midiNote,
                        !.targetFrequency = midiToFrequency(midiNote)]
        s2 == [s1 EXCEPT !.targetLengthMm =
                             physicsCalculateLengthFromFrequency(s1.targetFrequency)]
    IN  IF ~match.ok THEN [ok |-> FALSE, string |-> s]
        ELSE IF noteIndex = -1 THEN [ok |-> FALSE, string |-> s]
        ELSE [ok |-> TRUE, string |-> initializeCapoPositions(s2, fsl)]

\* setStringToFrequency(string, frequency), frequency in centihertz.  Both
\* comparisons of the guard are false for NaN: the frequency, the note, the
\* length and the capo positions computed from it are NaN.
setStringToFrequency(s, frequency, fsl) ==
    IF frequency = NAN
    THEN LET s1 == [s EXCEPT !.targetFrequency = NAN, !.targetMidiNote = NAN,
                             !.targetLengthMm = NAN, !.lowerCapoMm = NAN,
                             !.upperCapoMm = NAN]
         IN  [ok |-> TRUE,
              string |-> IF Placed(s1) THEN updateCalculations(s1, fsl)
                         ELSE [s1 EXCEPT !.playableLengthMm = NAN, !.actualFrequency = NAN]]
    ELSE IF frequency < 2000 \/ frequency > 2000000 THEN [ok |-> FALSE, string |-> s]
    ELSE [ok |-> TRUE,
          string |-> initializeCapoPositions(
              [s EXCEPT !.targetFrequency = frequency,
                        !.targetMidiNote = frequencyToMidi(frequency),
                        !.targetLengthMm = physicsCalculateLengthFromFrequency(frequency)],
              fsl)]

\* applyScalaScale(strings, scalaData, rootFreq): intervals in cents;
\* rootFreq * 2^(cents / 1200) through midiToFrequency(69 + cents / 100) / 440
applyScalaScale(strs, intervals, rootFreqArg, fsl) ==
    LET rootFreq == IF rootFreqArg = 0 THEN 6541 ELSE rootFreqArg
    IN  [i \in 1 .. Len(strs) |->
            LET scaleIndex == (i - 1) % Len(intervals)
                octave == (i - 1) \div Len(intervals)
                totalCents == intervals[scaleIndex + 1] + octave * 1200
                targetFreq == (rootFreq * (midiToFrequency(6900 + totalCents) \div 100)) \div 440
            IN  initializeCapoPositions(
                    [strs[i] EXCEPT !.targetFrequency = targetFreq,
                                    !.targetMidiNote = frequencyToMidi(targetFreq),
                                    !.targetLengthMm =
                                        physicsCalculateLengthFromFrequency(targetFreq)],
                    fsl)]

-----------------------------------------------------------------------------
(* SpecTune: every operation that sets the tuning target of a string,     *)
(* between material changes and moves of the selection.                   *)

\* texts typed into the note input: C4, a#2, F#5, and E#3 and H1, which are
\* not note names
NoteInputs ==
    {<<"C", "4">>, <<"a", "#", "2">>, <<"F", "#", "5">>, <<"E", "#", "3">>, <<"H", "1">>}

\* frequencies typed into the note input, in centihertz: 110 Hz, 261.63 Hz and 10 Hz
FrequencyInputs == {11000, 26163, 1000}

\* the intervals of two Scala scales, unison first: a pentatonic scale in
\* just ratios rounded to cents, and equal quarter tones
ScalaScales == {<<0, 204, 386, 702, 884, 1200>>, <<0, 50>>}

\* the semitone and octave buttons
SemitoneShifts == {1, -1, 12, -12}

\* how far, in semitones, the buttons may carry a target from C3
MaxShiftRange == 1

TuneKeys == {"ArrowLeft", "ArrowRight"}

\* the apply-note button with a note name
ApplyNoteInput ==
    /\ getSelectedString(World) # -1
    /\ \E noteName \in NoteInputs :
          LET w == Begin("setStringToNote")
              k == getSelectedString(w) + 1
              r == setStringToNote(w.strings[k], noteName, PHYSICS.FULL_STRING_LENGTH)
          IN  Becomes([w EXCEPT !.strings[k] = r.string, !.lastOp.ret = r.ok])

\* the apply-note button with a number
ApplyFrequencyInput ==
    /\ getSelectedString(World) # -1
    /\ \E frequency \in FrequencyInputs :
          LET w == Begin("setStringToFrequency")
              k == getSelectedString(w) + 1
              r == setStringToFrequency(w.strings[k], frequency, PHYSICS.FULL_STRING_LENGTH)
          IN  Becomes([w EXCEPT !.strings[k] = r.string, !.lastOp.ret = r.ok])

LoadScalaScale ==
    \E intervals \in ScalaScales :
        Becomes([Begin("applyScalaScale") EXCEPT
                    !.strings = applyScalaScale(strings, intervals, 6541,
                                                PHYSICS.FULL_STRING_LENGTH)])

SemitoneButton ==
    /\ getSelectedString(World) # -1
    /\ \E semitones \in SemitoneShifts :
          LET w == Begin("shiftStringSemitones")
              k == getSelectedString(w) + 1
              shifted == [w EXCEPT !.strings[k] =
                             shiftStringSemitones(@, semitones, PHYSICS.FULL_STRING_LENGTH)]
          IN  /\ Abs(shifted.strings[k].targetMidiNote - 4800) <= MaxShiftRange * 100
              /\ Becomes(pluck(shifted, k - 1))

NextTune ==
    \/ ApplyNoteInput
    \/ ApplyFrequencyInput
    \/ LoadScalaScale
    \/ SemitoneButton
    \/ ScalePresetSelect
    \/ ApplyMaterialButton
    \/ KeyPressed(TuneKeys)

SpecTune == Init /\ [][NextTune]_vars

\* C11: in every reachable state the targetLengthMm of each string is the
\* ideal vibrating length for its target frequency, computed with the
\* material, gauge and tension the string has.
C11_TargetLengthOfOwnMaterial ==
    \A i \in 1 .. Len(strings) :
        strings[i].targetLengthMm =
            calculateLengthFromFrequency(strings[i], strings[i].targetFrequency)

-----------------------------------------------------------------------------
(* Entering Draw mode *)

\* C12: in a step that takes the interaction mode to Draw, if no string was
\* in draw mode every string ends in draw mode with unset endpoints, and if
\* some string was in draw mode no string changes.
C12_EnteringDrawEnablesStrings ==
    [][ (im'.mode = DRAW /\ im.mode # DRAW) =>
            IF \A i \in 1 .. Len(strings) : ~strings[i].drawMode
            THEN /\ Len(strings') = Len(strings)
                 /\ \A i \in 1 .. Len(strings') :
                       /\ strings'[i].drawMode
                       /\ strings'[i].startX = NULL /\ strings'[i].startY = NULL
                       /\ strings'[i].endX = NULL /\ strings'[i].endY = NULL
            ELSE strings' = strings ]_vars

-----------------------------------------------------------------------------
(* SpecPositioning: the positioning state of the strings under presses    *)
(* and releases in every mode, the Delete key, string count changes and   *)
(* imports.                                                               *)

\* a version 2.0 file for n strings in which the draw-mode flag was edited to
\* false and the endpoints were kept
EditedFile(n) ==
    [version |-> "2.0",
     numStrings |-> n,
     strings |-> [i \in 1 .. n |-> [V2DrawFile(n).strings[i] EXCEPT !.drawMode = FALSE]]]

\* the files imported: a version 1.0 file and an edited file for n strings
PositioningFiles(n) == {V1File(n), EditedFile(n)}

PositioningPoints == {<<250, 560>>, <<750, 100>>}

PositioningKeys == {"Delete"}

ImportPositioningFile ==
    \E config \in PositioningFiles(Len(strings)) : Becomes(loadConfiguration(Begin("import"), config))

NextPositioning ==
    \/ ModeButton
    \/ MousePressed(PositioningPoints)
    \/ MouseReleased
    \/ KeyPressed(PositioningKeys)
    \/ StringCountSlider
    \/ ImportPositioningFile

SpecPositioning == Init /\ [][NextPositioning]_vars

\* C13: every string is Linear (draw mode off, no endpoint coordinate set),
\* DrawPlacing (draw mode on, none set) or DrawPlaced (draw mode on, all four
\* set); a string whose draw mode is off is therefore Linear, however the
\* flag was turned off.
C13_OneOfThreePositioningStates ==
    \A i \in 1 .. Len(strings) :
        LET s == strings[i]
            unset == s.startX = NULL /\ s.startY = NULL /\ s.endX = NULL /\ s.endY = NULL
            set == s.startX # NULL /\ s.startY # NULL /\ s.endX # NULL /\ s.endY # NULL
        IN  \/ ~s.drawMode /\ unset
            \/ s.drawMode /\ unset
            \/ s.drawMode /\ set


-----------------------------------------------------------------------------
(* SpecMaterial: material changes on instruments whose strings were       *)
(* retuned by scale presets and placed by Draw mode presses.              *)

MaterialPoints == {<<250, 560>>, <<750, 100>>}

NextMaterial ==
    \/ ApplyMaterialButton
    \/ ScalePresetSelect
    \/ ModeButton
    \/ MousePressed(MaterialPoints)
    \/ MouseReleased

SpecMaterial == Init /\ [][NextMaterial]_vars

\* C14: a material change leaves every string's targetMidiNote and
\* targetFrequency as they were, and leaves the draw-mode flag and the four
\* endpoints of a string in draw mode untouched.
C14_SetMaterialPreservesTarget ==
    [][lastOp'.op = "setMaterialProperties" =>
        /\ Len(strings') = Len(strings)
        /\ \A i \in 1 .. Len(strings) :
              /\ strings'[i].targetMidiNote = strings[i].targetMidiNote
              /\ strings'[i].targetFrequency = strings[i].targetFrequency
              /\ strings[i].drawMode =>
                    /\ strings'[i].drawMode
                    /\ strings'[i].startX = strings[i].startX
                    /\ strings'[i].startY = strings[i].startY
                    /\ strings'[i].endX = strings[i].endX
                    /\ strings'[i].endY = strings[i].endY ]_vars

\* a material change to heavy nylon has just acted on a placed draw-mode
\* string that a scale preset had retuned to middle C or above
C14_Witness ==
    /\ lastOp.op = "setMaterialProperties"
    /\ \E i \in 1 .. Len(strings) :
          /\ strings[i].material = "nylon" /\ strings[i].gauge = "heavy"
          /\ strings[i].drawMode /\ strings[i].startX # NULL
          /\ strings[i].targetMidiNote >= 6000

-----------------------------------------------------------------------------
\* C15: after the collection was replaced, a drag that moves a capo moves the
\* capo of a string of the current collection: the string the interaction
\* manager captured at the press is never one of a replaced collection.
C15_DragWorksOnCurrentCollection ==
    [][(/\ lastOp'.op = "mouseDragged"
        /\ im.mode = ADJUST
        /\ im.draggedString.index # -1
        /\ im.draggedCapo \in {"lower", "upper"})
          => ~im.draggedString.stale]_vars

-----------------------------------------------------------------------------
(* SpecCarry: string count and wall dimension changes on instruments      *)
(* whose strings were placed by Draw mode presses.                        *)

CarryPoints == {<<250, 560>>, <<750, 100>>}

NextCarry ==
    \/ ModeButton
    \/ MousePressed(CarryPoints)
    \/ MouseReleased
    \/ StringCountSlider
    \/ ApplyWallDimensions

SpecCarry == Init /\ [][NextCarry]_vars

\* C16: after a string count or wall dimension change, a string whose index
\* existed before and was in draw mode is in draw mode with the endpoints it
\* had, and every other string of the new collection is linear: draw mode
\* off and the four endpoints unset.
C16_DrawModeCarriedByIndex ==
    [][lastOp'.op \in {"setStringCount", "setWallDimensions"} =>
        \A i \in 1 .. Len(strings') :
            IF i <= Len(strings) /\ strings[i].drawMode
            THEN /\ strings'[i].drawMode
                 /\ strings'[i].startX = strings[i].startX
                 /\ strings'[i].startY = strings[i].startY
                 /\ strings'[i].endX = strings[i].endX
                 /\ strings'[i].endY = strings[i].endY
            ELSE /\ ~strings'[i].drawMode
                 /\ strings'[i].startX = NULL /\ strings'[i].startY = NULL
                 /\ strings'[i].endX = NULL /\ strings'[i].endY = NULL ]_vars

\* a wall dimension change has just rebuilt a collection whose first string
\* is placed in draw mode and whose second string is linear
C16_Witness ==
    /\ lastOp.op = "setWallDimensions"
    /\ PHYSICS.FULL_STRING_LENGTH # DEFAULT_FULL_STRING_LENGTH
    /\ Len(strings) = 2
    /\ strings[1].drawMode /\ strings[1].startX # NULL
    /\ ~strings[2].drawMode

-----------------------------------------------------------------------------
(* SpecPlaying: the playing state of plucked strings under the duration   *)
(* timers and the decay of the draw loop.                                 *)

\* INTERACTION_CONSTANTS.VIBRATION_DECAY, in hundredths
VIBRATION_DECAY == 95

\* INTERACTION_CONSTANTS.MIN_AMPLITUDE, in thousandths
MIN_AMPLITUDE == 10

\* HarpString.updatePlaying, with the amplitude on the grid of thousandths
updatePlaying(s) ==
    LET decayed == (s.playingAmplitude * VIBRATION_DECAY) \div 100
    IN  IF ~s.isPlaying THEN s
        ELSE IF decayed < MIN_AMPLITUDE
        THEN [s EXCEPT !.isPlaying = FALSE, !.playingAmplitude = 0]
        ELSE [s EXCEPT !.playingAmplitude = decayed]

\* one frame of WallHarpSimulator.draw: every string's updatePlaying
draw(w) ==
    [w EXCEPT !.strings = [i \in 1 .. Len(w.strings) |-> updatePlaying(w.strings[i])]]

DrawFrame == Becomes(draw(Begin("draw")))

\* the timer of the string at position i fires
PluckTimerOf(i) ==
    /\ i <= Len(strings)
    /\ strings[i].timerPending
    /\ Becomes(pluckTimer(Begin("pluckTimer"), i))

\* the pluck key and the key that selects and plucks the next string
PlayingKeys == {" ", "ArrowRight"}

NextPlaying ==
    \/ InitAudioClick
    \/ InitAudioComplete
    \/ KeyPressed(PlayingKeys)
    \/ PluckTimer
    \/ DrawFrame

\* every timer that was set fires, and the draw loop keeps running
SpecPlaying ==
    /\ Init
    /\ [][NextPlaying]_vars
    /\ \A i \in 1 .. MaxStrings : WF_vars(PluckTimerOf(i))
    /\ WF_vars(DrawFrame)

\* the string at position i exists and is playing
Playing(i) == i <= Len(strings) /\ strings[i].isPlaying

\* C17: a pluck on an initialized audio engine leaves the string playing at
\* amplitude 1.0; a playing string eventually stops playing; and a string
\* that is not playing starts playing only by a pluck of that string.
C17_PluckPlaysThenStops ==
    /\ [][\A i \in 1 .. Len(strings') :
              (/\ audio.initialized
               /\ \E k \in 1 .. Len(lastOp'.plucked) :
                     lastOp'.plucked[k] = [index |-> i - 1, stale |-> FALSE])
                 => /\ strings'[i].isPlaying
                    /\ strings'[i].playingAmplitude = 1000]_vars
    /\ \A i \in 1 .. MaxStrings : Playing(i) ~> ~Playing(i)
    /\ [][\A i \in 1 .. MaxStrings :
              (~Playing(i) /\ Playing(i)')
                 => \E k \in 1 .. Len(lastOp'.plucked) : lastOp'.plucked[k].index = i - 1]_vars

\* the second string was plucked on the initialized engine and has stopped
\* by its timer while its amplitude was still above the floor
C17_Witness ==
    /\ audio.initialized
    /\ lastOp.op = "pluckTimer"
    /\ Len(strings) = 2
    /\ ~strings[2].isPlaying
    /\ ~strings[2].timerPending
    /\ strings[2].playingAmplitude > MIN_AMPLITUDE
    /\ strings[2].playingAmplitude < 1000

-----------------------------------------------------------------------------
(* SpecThrottle: drags at the times of a clock, in Adjust mode on a capo  *)
(* and in Draw mode on an endpoint.                                       *)

\* INTERACTION_CONSTANTS.DRAG_PLUCK_INTERVAL, in ms
DRAG_PLUCK_INTERVAL == 100

\* mutant: every drag plucks
dragPluckDue_always(now, lastDragPluckTime) == TRUE

\* now - this.lastDragPluckTime > INTERACTION_CONSTANTS.DRAG_PLUCK_INTERVAL
dragPluckDue(now, lastDragPluckTime) == now - lastDragPluckTime > DRAG_PLUCK_INTERVAL

\* the clock advances in steps of ClockStep ms, MaxTicks times
ClockStep == 50

MaxTicks == 5

Tick ==
    /\ clock < ClockStart + MaxTicks * ClockStep
    /\ Becomes([Begin("tick") EXCEPT !.clock = clock + ClockStep])

ThrottlePoints == {<<250, 560>>}

\* a drag event at the time of the clock; the time of the last drag pluck
\* before the event is recorded as the result
MouseDraggedNow(points) ==
    /\ mouse.button = "down"
    /\ \E pt \in points :
          Becomes(handleMouseDragged(
                      [Begin("mouseDragged") EXCEPT !.lastOp.ret = im.lastDragPluckTime],
                      pt[1], pt[2], dragPluckDue(clock, im.lastDragPluckTime)))

NextThrottle ==
    \/ Tick
    \/ ModeButton
    \/ MousePressed(ThrottlePoints)
    \/ MouseDraggedNow(ThrottlePoints)
    \/ MouseReleased

SpecThrottle == Init /\ [][NextThrottle]_vars

\* the last step was a drag that plucked
AutoPlucked == lastOp.op = "mouseDragged" /\ Len(lastOp.plucked) > 0

\* C18: a drag plucks only when more than DRAG_PLUCK_INTERVAL ms have passed
\* since the last drag pluck, and the time of the last drag pluck is written
\* by the drags that pluck and by nothing else: two consecutive auto-plucks
\* are more than the interval apart.
C18_AutoPlucksThrottled ==
    /\ [](AutoPlucked =>
            /\ clock - lastOp.ret > DRAG_PLUCK_INTERVAL
            /\ im.lastDragPluckTime = clock
            /\ Len(lastOp.plucked) = 1)
    /\ [][im'.lastDragPluckTime # im.lastDragPluckTime => AutoPlucked']_vars

\* a drag of a capo in Adjust mode plucked for the second time
C18_Witness ==
    /\ AutoPlucked
    /\ im.mode = ADJUST
    /\ lastOp.ret >= ClockStart

-----------------------------------------------------------------------------
(* SpecGrab: presses in Adjust mode at several heights of the first       *)
(* string, with the capos moved by drags and swapped by reverse capo mode. *)

\* below both capos, midway between the initial capos, and above both
GrabPoints == {<<250, 560>>, <<250, 320>>, <<250, 100>>}

GrabKeys == {"2"}

NextGrab ==
    \/ KeyPressed(GrabKeys)
    \/ ToggleReverseCapo
    \/ MousePressed(GrabPoints)
    \/ MouseDragged(GrabPoints)
    \/ MouseReleased

SpecGrab == Init /\ [][NextGrab]_vars

\* the distance on screen from height mouseY to a capo at positionMm, in
\* pixels times FULL_STRING_LENGTH: exact, where mmToScreenY rounds
ScreenDistance(mouseY, positionMm) ==
    LET stringZoneHeight == CanvasHeight - 60 - 120
        stringZoneBottom == CanvasHeight - 120
    IN  Abs((mouseY - stringZoneBottom) * PHYSICS.FULL_STRING_LENGTH
            + positionMm * stringZoneHeight)

\* C19: a press in Adjust mode that hits a string captures that string and
\* one capo of it: the lower capo when the pointer is at least as near to it
\* on screen as to the upper capo, and the upper capo otherwise.
C19_NearerCapoGrabbed ==
    [][(lastOp'.op = "mousePressed" /\ lastOp'.ret.mode = ADJUST /\ lastOp'.ret.hit # -1) =>
        LET s == strings[lastOp'.ret.hit + 1]
            distToLower == ScreenDistance(lastOp'.ret.y, s.lowerCapoMm)
            distToUpper == ScreenDistance(lastOp'.ret.y, s.upperCapoMm)
        IN  /\ im'.draggedString = Ref(lastOp'.ret.hit)
            /\ im'.draggedCapo = IF distToLower <= distToUpper THEN "lower" ELSE "upper"]_vars

-----------------------------------------------------------------------------
\* C20: a release in Draw mode while a string is being placed ends the
\* placing (no string is being placed afterwards) and plucks the string
\* that was being placed, once.
C20_PlacingReleasePlucksOnce ==
    [][(lastOp'.op = "mouseReleased" /\ im.mode = DRAW /\ im.placingString) =>
        /\ ~im'.placingString
        /\ im'.currentStringIndex = -1
        /\ lastOp'.plucked = <<[index |-> im.currentStringIndex, stale |-> FALSE]>>]_vars

-----------------------------------------------------------------------------
(* SpecNavigate: the arrow keys on instruments of up to NavStrings        *)
(* strings, each linear, in draw mode and unplaced, or placed.            *)

NavStrings == 3

\* the positioning of one string: linear, draw mode unplaced, placed
Positionings == {"linear", "placing", "placed"}

\* string s of a fresh collection in the given positioning, as
\* enableDrawModeForStrings and a placing gesture leave it
Positioned(s, positioning, fsl) ==
    IF positioning = "linear" THEN s
    ELSE IF positioning = "placing" THEN [s EXCEPT !.drawMode = TRUE]
    ELSE updateCalculations([s EXCEPT !.drawMode = TRUE,
                                      !.startX = 100 + 200 * s.index, !.startY = 100,
                                      !.endX = 100 + 200 * s.index, !.endY = 500], fsl)

InitNavigate ==
    /\ PHYSICS = InitPHYSICS
    /\ audio = InitAudio
    /\ exported = NoConfig
    /\ mouse = InitMouse
    /\ clock = ClockStart
    /\ sequencer = NewSequencer
    /\ lastOp = Op("new")
    /\ \E n \in 1 .. NavStrings :
          /\ app = [InitApp EXCEPT !.numStrings = n]
          /\ \E positioning \in [1 .. n -> Positionings] :
                strings = [i \in 1 .. n |->
                    Positioned(createChromaticStrings(n, DEFAULT_MATERIAL, DEFAULT_GAUGE,
                                   DEFAULT_TENSION, DEFAULT_FULL_STRING_LENGTH)[i],
                               positioning[i], DEFAULT_FULL_STRING_LENGTH)]
          /\ im = InitIM

\* an arrow key; the key and the primary selection before it are recorded
ArrowKeyPressed ==
    \E key \in {"ArrowLeft", "ArrowRight"} :
        Becomes(handleKeyPressed(
                    [Begin("keyPressed") EXCEPT
                        !.lastOp.ret = [key |-> key, from |-> im.selectedStringIndex]],
                    key, FALSE))

NextNavigate ==
    \/ ArrowKeyPressed
    \/ ModeButton

SpecNavigate == InitNavigate /\ [][NextNavigate]_vars

\* string index j is eligible for the arrow keys
Eligible(j) == im.mode # DRAW \/ Placed(strings[j + 1])

\* where an arrow key takes the primary selection from index cur: to the
\* nearest eligible index in the direction of the key (in modes other than
\* Draw the adjacent index), and nowhere when there is none
ArrowTarget(key, cur) ==
    LET left == {j \in 0 .. cur - 1 : Eligible(j)}
        right == {j \in cur + 1 .. Len(strings) - 1 : Eligible(j)}
    IN  IF key = "ArrowLeft"
        THEN IF left = {} THEN cur ELSE CHOOSE j \in left : \A k \in left : k <= j
        ELSE IF right = {} THEN cur ELSE CHOOSE j \in right : \A k \in right : j <= k

\* C21: an arrow key moves the primary selection to the nearest eligible
\* string in its direction, placed strings only in Draw mode and the adjacent
\* index in the other modes; it leaves the primary selection unchanged when
\* there is none, and the primary selection stays within 0 .. N-1.
C21_ArrowMovesToAdjacentEligible ==
    [][lastOp'.op = "keyPressed" =>
        /\ im'.selectedStringIndex = ArrowTarget(lastOp'.ret.key, im.selectedStringIndex)
        /\ im'.selectedStringIndex \in 0 .. Len(strings') - 1]_vars

\* in Draw mode ArrowRight took the primary selection from the first string
\* over the unplaced second one to the placed third one
C21_Witness ==
    /\ lastOp.op = "keyPressed"
    /\ lastOp.ret = [key |-> "ArrowRight", from |-> 0]
    /\ im.mode = DRAW
    /\ Len(strings) = 3
    /\ ~Placed(strings[2])
    /\ Placed(strings[3])
    /\ im.selectedStringIndex = 2

-----------------------------------------------------------------------------
(* parseScalaFile (string.js).  A Scala text is a sequence of lines; a    *)
(* line is a comment (it starts with '!'), blank, an integer, a number   *)
(* with a point (cents), a ratio num/den, or other text.                  *)

ScalaLine(kind, a, b) == [kind |-> kind, a |-> a, b |-> b]

\* parseInt(line): the leading integer of the line
parseIntLine(line) ==
    IF line.kind \in {"int", "cents", "ratio"} THEN line.a ELSE NAN

\* 1200 * Math.log2(num / den), in cents, for the ratios of the texts
RatioCents(num, den) ==
    CASE <<num, den>> = <<9, 8>> -> 204
      [] <<num, den>> = <<5, 4>> -> 386
      [] <<num, den>> = <<3, 2>> -> 702
      [] <<num, den>> = <<2, 1>> -> 1200
      [] OTHER -> NAN

\* the interval of a pitch line, in cents
parseFloatLine(line) ==
    IF line.kind = "cents" THEN line.a
    ELSE IF line.kind = "ratio" THEN RatioCents(line.a, line.b)
    ELSE IF line.kind = "int" THEN line.a
    ELSE NAN

\* parseScalaFile(scalaText): whether it throws, and the intervals it returns
parseScalaFile(scalaText) ==
    LET lines == SelectSeq(scalaText, LAMBDA l : l.kind \notin {"blank", "comment"})
        numNotes == parseIntLine(lines[2])
        last == Min(2 + numNotes, Len(lines))
    IN  IF Len(lines) < 2 THEN [threw |-> TRUE, intervals |-> <<>>]
        ELSE IF numNotes = NAN \/ numNotes < 1 THEN [threw |-> TRUE, intervals |-> <<>>]
        ELSE [threw |-> FALSE,
              intervals |-> <<0>> \o [k \in 1 .. last - 2 |-> parseFloatLine(lines[k + 2])]]

-----------------------------------------------------------------------------
(* SpecErrors: the tuning and import operations called with good and with *)
(* bad input.  Each call records whether the input was bad, whether the   *)
(* call threw, and the value it returned.                                 *)

\* a well-formed text of two notes; a text with a description only; a text
\* whose count line is text; a text with a pitch line that is no number
ScalaTexts ==
    {<<ScalaLine("comment", 0, 0), ScalaLine("text", 0, 0), ScalaLine("int", 2, 0),
       ScalaLine("ratio", 9, 8), ScalaLine("cents", 1200, 0)>>,
     <<ScalaLine("comment", 0, 0), ScalaLine("text", 0, 0), ScalaLine("blank", 0, 0)>>,
     <<ScalaLine("text", 0, 0), ScalaLine("text", 0, 0), ScalaLine("cents", 100, 0)>>,
     <<ScalaLine("text", 0, 0), ScalaLine("int", 2, 0), ScalaLine("text", 0, 0),
       ScalaLine("ratio", 2, 1)>>}

\* the Scala format: a description, a count of at least one, and that many
\* pitch lines, each a number or a ratio
WellFormedScala(scalaText) ==
    LET lines == SelectSeq(scalaText, LAMBDA l : l.kind \notin {"blank", "comment"})
    IN  /\ Len(lines) >= 2
        /\ lines[2].kind = "int" /\ lines[2].a >= 1
        /\ Len(lines) = 2 + lines[2].a
        /\ \A k \in 3 .. Len(lines) : lines[k].kind \in {"int", "cents", "ratio"}

ScaleNames == {"major", "bogus"}

Result(bad, threw, value) == [bad |-> bad, threw |-> threw, value |-> value]

CallParseScalaFile ==
    \E scalaText \in ScalaTexts :
        LET r == parseScalaFile(scalaText)
        IN  Becomes([Begin("parseScalaFile") EXCEPT
                        !.lastOp.ret = Result(~WellFormedScala(scalaText), r.threw,
                                              IF r.threw THEN "none" ELSE "object")])

\* applyScale returns nothing on either path
CallApplyScaleByName ==
    \E scaleName \in ScaleNames :
        Becomes([Begin("applyScale") EXCEPT
                    !.strings = applyScale(strings, scaleName, 60, PHYSICS.FULL_STRING_LENGTH),
                    !.lastOp.ret = Result(scaleName \notin DOMAIN SCALES, FALSE, "undefined")])

CallImportConfiguration ==
    \E config \in ImportFiles :
        LET r == importConfiguration(strings, config, PHYSICS.FULL_STRING_LENGTH)
        IN  Becomes([Begin("importConfiguration") EXCEPT
                        !.strings = r.strings,
                        !.lastOp.ret = Result(Rejected(config, Len(strings)), FALSE,
                                              IF r.ok THEN "true" ELSE "false")])

CallSetStringToNote ==
    \E i \in 1 .. Len(strings), noteName \in NoteInputs :
        LET r == setStringToNote(strings[i], noteName, PHYSICS.FULL_STRING_LENGTH)
        IN  Becomes([Begin("setStringToNote") EXCEPT
                        !.strings[i] = r.string,
                        !.lastOp.ret = Result(~noteNameMatch(noteName).ok, FALSE,
                                              IF r.ok THEN "true" ELSE "false")])

\* the frequencies passed to setStringToFrequency: the typed ones and NaN
FrequencyArguments == FrequencyInputs \cup {NAN}

\* the frequency is a number from 20 Hz to 20000 Hz
ValidFrequency(frequency) == frequency # NAN /\ frequency >= 2000 /\ frequency <= 2000000

CallSetStringToFrequency ==
    \E i \in 1 .. Len(strings), frequency \in FrequencyArguments :
        LET r == setStringToFrequency(strings[i], frequency, PHYSICS.FULL_STRING_LENGTH)
        IN  Becomes([Begin("setStringToFrequency") EXCEPT
                        !.strings[i] = r.string,
                        !.lastOp.ret = Result(~ValidFrequency(frequency), FALSE,
                                              IF r.ok THEN "true" ELSE "false")])

WaveformArguments == {"square", "bogus"}

\* applyWaveform returns nothing on either path
CallApplyWaveform ==
    \E waveformType \in WaveformArguments :
        Becomes([Begin("applyWaveform") EXCEPT
                    !.strings = applyWaveform(strings, waveformType, 0,
                                              PHYSICS.FULL_STRING_LENGTH),
                    !.lastOp.ret = Result(waveformType \notin WaveformNames, FALSE,
                                          "undefined")])

NextErrors ==
    \/ CallParseScalaFile
    \/ CallApplyWaveform
    \/ CallApplyScaleByName
    \/ CallImportConfiguration
    \/ CallSetStringToNote
    \/ CallSetStringToFrequency

SpecErrors == Init /\ [][NextErrors]_vars

ErrorOps ==
    {"parseScalaFile", "applyScale", "applyWaveform", "importConfiguration",
     "setStringToNote", "setStringToFrequency"}

\* C22: a call with bad input (an unknown scale name, a malformed Scala
\* text, an import without version or strings or for another string count, a
\* note name of the wrong form, a frequency that is no number from 20 Hz to
\* 20000 Hz) does not throw and
\* returns a failure value.
C22_BadInputReportedNotThrown ==
    (lastOp.op \in ErrorOps /\ lastOp.ret.bad) =>
        /\ ~lastOp.ret.threw
        /\ lastOp.ret.value \in {"false", "undefined"}

TuningOps == {"applyScale", "applyWaveform", "setStringToNote", "setStringToFrequency"}

\* C23: a tuning call with invalid input (an unknown scale or waveform name,
\* a note name of the wrong form, a frequency that is no number from 20 Hz to
\* 20000 Hz) returns a failure value and changes no field of any string.
C23_InvalidTuningChangesNothing ==
    [][(lastOp'.op \in TuningOps /\ lastOp'.ret.bad) =>
        /\ lastOp'.ret.value \in {"false", "undefined"}
        /\ strings' = strings]_vars

-----------------------------------------------------------------------------
(* Presses and drags without a target.                                    *)

\* a low point on the column of the first string, a high point on the column
\* of the second, and a point right of the canvas
IdlePoints == {<<250, 560>>, <<750, 100>>, <<1200, 300>>}

IdleKeys == {"ArrowRight"}

NextIdle ==
    \/ MousePressed(IdlePoints)
    \/ MouseDragged(IdlePoints)
    \/ MouseReleased
    \/ KeyPressed(IdleKeys)
    \/ ModeButton
    \/ StringCountSlider

SpecIdle == Init /\ [][NextIdle]_vars

\* the press finds a string to act on: in Draw mode an endpoint, with Shift an
\* unplaced string, without Shift a placed segment; in the other modes a column
PressTarget(mouseX, mouseY, shiftKey) ==
    IF im.mode = DRAW
    THEN \/ findEndpointAtPosition(World, mouseX, mouseY) # 0
         \/ shiftKey /\ findUnplacedDrawString(World) # 0
         \/ ~shiftKey /\ findStringAtPosition(World, mouseX, mouseY) # 0
    ELSE findStringAtX(World, mouseX) # -1

\* nothing is captured for dragging and no string is being placed
NothingCaptured == im.draggedString.index = -1 /\ ~im.placingString

\* C24: a press that finds no target string, and a drag while nothing is
\* captured and no string is being placed, leave the interaction state (mode,
\* selection, drag state) and every field of every string as they were, and
\* pluck nothing.
C24_NoTargetNoEffect ==
    [][/\ (lastOp'.op = "mousePressed"
           /\ ~PressTarget(lastOp'.ret.x, lastOp'.ret.y, lastOp'.ret.shift))
          => (im' = im /\ strings' = strings /\ lastOp'.plucked = <<>>)
       /\ (lastOp'.op = "mouseDragged" /\ NothingCaptured)
          => (im' = im /\ strings' = strings /\ lastOp'.plucked = <<>>)]_vars

\* a press right of the canvas in Adjust mode, after the selection was moved
C24_Witness ==
    /\ lastOp.op = "mousePressed"
    /\ lastOp.ret.mode = ADJUST
    /\ lastOp.ret.hit = -1
    /\ im.selectedStringIndex = 1

\* a drag in Draw mode with a placed string and nothing captured
C24_DragCase ==
    /\ lastOp.op = "mouseDragged"
    /\ im.mode = DRAW
    /\ NothingCaptured
    /\ \E i \in 1 .. Len(strings) : Placed(strings[i])

-----------------------------------------------------------------------------
(* Draw mode quantization (CHANGELOG.md: storage.js, ui-controls.js).     *)

\* generateScaleNotes with numOctaves = 6, as a set of MIDI cents
generateScaleNotes(scaleType, rootMidi) ==
    {(rootMidi + SCALES[scaleType][k] + octave * 12) * 100 :
        k \in 1 .. Len(SCALES[scaleType]), octave \in -1 .. 6}

\* findNearestScaleNote: the scan is in ascending order and replaces on a
\* strictly smaller distance, so the lower of two equally near notes wins
findNearestScaleNote(currentMidi, allowedNotes) ==
    CHOOSE n \in allowedNotes :
        \A o \in allowedNotes :
            \/ Abs(currentMidi - n) < Abs(currentMidi - o)
            \/ Abs(currentMidi - n) = Abs(currentMidi - o) /\ n <= o

\* the target note quantizeStringPitch chooses, in MIDI cents
quantizeTarget(s, scaleFilter, rootNote) ==
    LET currentMidi == frequencyToMidi(s.actualFrequency)
    IN  IF scaleFilter = "none" \/ scaleFilter \notin DOMAIN SCALES
        THEN ((currentMidi + 50) \div 100) * 100
        ELSE findNearestScaleNote(currentMidi, generateScaleNotes(scaleFilter, rootNote))

\* quantizeStringPitch(string, scaleFilter, rootNote).  The endpoints stay on
\* the pixel grid and are placed symmetrically about the doubled centre; a
\* segment of length zero has scaleFactor Infinity and 0 * Infinity = NaN
\* endpoints.
quantizeStringPitch(s, scaleFilter, rootNote, P) ==
    IF ~Placed(s) THEN [ok |-> FALSE, string |-> s]
    ELSE IF s.actualFrequency = NAN \/ s.actualFrequency <= 0 THEN [ok |-> FALSE, string |-> s]
    ELSE
    LET targetFreq == midiToFrequency(quantizeTarget(s, scaleFilter, rootNote))
        requiredLengthMm == calculateLengthFromFrequency(s, targetFreq)
        dx == s.endX - s.startX
        dy == s.endY - s.startY
        currentLengthPixels10 == Sqrt((dx * dx + dy * dy) * 100)
        avgScale1000 == ((P.WALL_WIDTH * 1000) \div CanvasWidth
                         + (P.FULL_STRING_LENGTH * 1000) \div CANVAS_HEIGHT) \div 2
        currentLengthMm == (currentLengthPixels10 * avgScale1000) \div 10000
        scaleFactor1000 == (requiredLengthMm * 1000) \div currentLengthMm
        newDx == (dx * scaleFactor1000) \div 1000
        newDy == (dy * scaleFactor1000) \div 1000
        startX == (s.startX + s.endX - newDx) \div 2
        startY == (s.startY + s.endY - newDy) \div 2
    IN  IF dx = 0 /\ dy = 0
        THEN [ok |-> TRUE,
              string |-> [s EXCEPT !.startX = NAN, !.startY = NAN, !.endX = NAN,
                                   !.endY = NAN, !.playableLengthMm = NAN,
                                   !.actualFrequency = NAN]]
        ELSE [ok |-> TRUE,
              string |-> updateCalculations(
                             [s EXCEPT !.startX = startX, !.startY = startY,
                                       !.endX = s.startX + s.endX - startX,
                                       !.endY = s.startY + s.endY - startY],
                             P.FULL_STRING_LENGTH)]

QuantizeFilters == {"none", "major"}

QuantizeRoots == {48}

\* the Quantize Pitch button, clicked between canvas gestures: every selected
\* string is quantized
QuantizePitchButton ==
    /\ mouse.button = "up"
    /\ \E scaleFilter \in QuantizeFilters, rootNote \in QuantizeRoots :
        LET selected == {i \in 1 .. Len(strings) :
                            \E k \in 1 .. Len(im.selectedStringIndices) :
                                im.selectedStringIndices[k] = i - 1}
            q(i) == quantizeStringPitch(strings[i], scaleFilter, rootNote, PHYSICS)
        IN  Becomes([Begin("quantizePitch") EXCEPT
                        !.strings = [i \in 1 .. Len(strings) |->
                                        IF i \in selected THEN q(i).string ELSE strings[i]],
                        !.lastOp.ret = [scaleFilter |-> scaleFilter, rootNote |-> rootNote,
                                        quantized |-> {i \in selected : q(i).ok}]])

QuantizePoints == {<<250, 560>>, <<750, 100>>}

\* the Draw mode button
DrawModeButton == Becomes(appSetMode(Begin("setMode"), DRAW))

NextQuantize ==
    \/ DrawModeButton
    \/ MousePressed(QuantizePoints)
    \/ MouseDragged(QuantizePoints)
    \/ MouseReleased
    \/ QuantizePitchButton

SpecQuantize == Init /\ [][NextQuantize]_vars

\* the pitch error, in MIDI cents, that the pixel grid of the endpoints allows
PitchTolerance == 50

\* C25: after quantizeStringPitch succeeds on a placed draw-mode string, the
\* pitch of the frequency updateCalculations computes from the rescaled
\* endpoints is the chosen target note, and the midpoint of the segment is
\* where it was.
C25_QuantizedPitchIsTarget ==
    [][lastOp'.op = "quantizePitch" =>
        \A i \in lastOp'.ret.quantized :
            /\ strings'[i].actualFrequency # NAN
            /\ Abs(frequencyToMidi(strings'[i].actualFrequency)
                   - quantizeTarget(strings[i], lastOp'.ret.scaleFilter, lastOp'.ret.rootNote))
                  <= PitchTolerance
            /\ strings'[i].startX + strings'[i].endX = strings[i].startX + strings[i].endX
            /\ strings'[i].startY + strings'[i].endY = strings[i].startY + strings[i].endY]_vars

-----------------------------------------------------------------------------
(* Note names of shifted targets.                                         *)

noteNames == <<"C", "C#", "D", "D#", "E", "F", "F#", "G", "G#", "A", "A#", "B">>

\* the % of JavaScript: the remainder has the sign of the dividend
Remainder(a, b) == IF a >= 0 THEN a % b ELSE -((-a) % b)

\* mutant: the MIDI value is truncated, not rounded
midiToNoteName_truncate(midiNote) ==
    LET rounded == midiNote \div 100
    IN  [note |-> noteNames[(rounded % 12) + 1], octave |-> (rounded \div 12) - 1]

\* midiToNoteName, midiNote in MIDI cents: the name read from the table
\* ("undefined" off the table) and the octave
midiToNoteName(midiNote) ==
    LET rounded == (midiNote + 50) \div 100
        octave == (rounded \div 12) - 1
        k == Remainder(rounded, 12)
    IN  [note |-> IF k \in 0 .. 11 THEN noteNames[k + 1] ELSE "undefined",
         octave |-> octave]

\* how far below 0 and how far above it, in semitones, the shifts may carry a
\* target
MaxShiftDown == 14

MaxShiftMidi == 38

\* shiftStringSemitones on any string; the note name it logs is recorded
CallShiftStringSemitones ==
    \E i \in 1 .. Len(strings), semitones \in SemitoneShifts :
        LET newMidi == strings[i].targetMidiNote + semitones * 100
        IN  /\ newMidi >= -MaxShiftDown * 100
            /\ newMidi <= MaxShiftMidi * 100
            /\ Becomes([Begin("shiftStringSemitones") EXCEPT
                           !.strings[i] = shiftStringSemitones(@, semitones,
                                                               PHYSICS.FULL_STRING_LENGTH),
                           !.lastOp.ret = [midi |-> newMidi,
                                           name |-> midiToNoteName(newMidi)]])

NextShift == CallShiftStringSemitones

SpecShift == Init /\ [][NextShift]_vars

\* C26: the note name of every rounded MIDI value, negative ones included, is
\* one of the twelve table names followed by the octave floor(rounded / 12) - 1.
C26_NoteNameOfAnyMidi ==
    lastOp.op = "shiftStringSemitones" =>
        LET rounded == (lastOp.ret.midi + 50) \div 100
        IN  /\ \E k \in 1 .. 12 : lastOp.ret.name.note = noteNames[k]
            /\ lastOp.ret.name.octave = (rounded \div 12) - 1

\* the highest MIDI note passed to midiToNoteName
MaxNoteSemitones == 70

\* the cents above a whole note: none, just below and at the half, and almost
\* the next note
NoteFractions == {0, 49, 50, 99}

\* midiToNoteName on a non-negative MIDI value, whole or fractional
CallMidiToNoteName ==
    \E semi \in 0 .. MaxNoteSemitones, frac \in NoteFractions :
        LET midiNote == semi * 100 + frac
        IN
        Becomes([Begin("midiToNoteName") EXCEPT
                    !.lastOp.ret = [midi |-> midiNote, name |-> midiToNoteName(midiNote)]])

NextNoteName == CallMidiToNoteName

SpecNoteName == Init /\ [][NextNoteName]_vars

\* C27: for a non-negative MIDI value m the note name is the table name at
\* position round(m) mod 12 followed by the octave floor(round(m) / 12) - 1;
\* 60 is C4, 69 is A4 and 36 is C2.
C27_NoteNameFromTable ==
    lastOp.op = "midiToNoteName" =>
        LET m == lastOp.ret.midi
            rounded == (m + 50) \div 100
        IN  /\ lastOp.ret.name = [note |-> noteNames[(rounded % 12) + 1],
                                  octave |-> (rounded \div 12) - 1]
            /\ m = 6000 => lastOp.ret.name = [note |-> "C", octave |-> 4]
            /\ m = 6900 => lastOp.ret.name = [note |-> "A", octave |-> 4]
            /\ m = 3600 => lastOp.ret.name = [note |-> "C", octave |-> 2]

\* a fractional value that rounds up to A4
C27_Witness ==
    /\ lastOp.op = "midiToNoteName"
    /\ lastOp.ret.midi = 6850
    /\ lastOp.ret.name = [note |-> "A", octave |-> 4]

-----------------------------------------------------------------------------
(* The wave equation.                                                     *)

\* half of the longest vibrating length measured, in mm
MaxHalfLength == 130

OctaveLengths == {2 * h * 10 : h \in 3 .. MaxHalfLength}

\* calculateFrequencyFromLength on a length and on its half, for one material,
\* gauge and tension
CallCalculateFrequencyFromLength ==
    \E mc \in MaterialChoices, lengthMm \in OctaveLengths :
        LET s == [material |-> mc[1], gauge |-> mc[2], tension |-> mc[3]]
        IN  Becomes([Begin("calculateFrequencyFromLength") EXCEPT
                        !.lastOp.ret =
                            [material |-> mc[1], gauge |-> mc[2], tension |-> mc[3],
                             lengthMm |-> lengthMm,
                             whole |-> calculateFrequencyFromLength(s, lengthMm),
                             half |-> calculateFrequencyFromLength(s, lengthMm \div 2)]])

NextOctave == CallCalculateFrequencyFromLength

SpecOctave == Init /\ [][NextOctave]_vars

\* C28: for a fixed material, gauge and tension the frequency of half a
\* length is twice the frequency of the length, to the centihertz of the grid;
\* under steel, medium gauge and 120 N, 1000 mm gives about 114.8 Hz and 500 mm
\* about 229.6 Hz.
C28_HalfLengthDoublesFrequency ==
    lastOp.op = "calculateFrequencyFromLength" =>
        /\ lastOp.ret.half - 2 * lastOp.ret.whole \in {0, 1}
        /\ (/\ lastOp.ret.material = DEFAULT_MATERIAL
            /\ lastOp.ret.gauge = DEFAULT_GAUGE
            /\ lastOp.ret.tension = DEFAULT_TENSION
            /\ lastOp.ret.lengthMm = 1000)
           => /\ Abs(lastOp.ret.whole - 11480) < 50
              /\ Abs(lastOp.ret.half - 22960) < 100

\* the doubling alone
C28_HalfLengthDoubles ==
    lastOp.op = "calculateFrequencyFromLength" =>
        lastOp.ret.half - 2 * lastOp.ret.whole \in {0, 1}

-----------------------------------------------------------------------------
(* The MIDI / frequency round trip in double precision.                   *)

\* 440 * 2^((m - 69) / 12) exceeds the largest double above this value, in
\* MIDI cents: 69 + 12 * (1024 - log2(440)) = 12251.62
MaxFiniteMidi == 1225162

\* Math.pow(2, (m - 69) / 12) is 0 from this value down: 69 - 12 * 1075
MaxZeroMidi == -1283100

\* midiToFrequency in double precision: Infinity and 0 outside the range of
\* the doubles, the grid value inside
midiToFrequencyDouble(midiNote) ==
    IF midiNote > MaxFiniteMidi THEN INFINITY
    ELSE IF midiNote <= MaxZeroMidi THEN 0
    ELSE midiToFrequency(midiNote)

\* frequencyToMidi in double precision: log2 of Infinity is Infinity and log2
\* of 0 is -Infinity
frequencyToMidiDouble(frequency) ==
    IF frequency = INFINITY THEN INFINITY
    ELSE IF frequency = 0 THEN -INFINITY
    ELSE frequencyToMidi(frequency)

\* the highest MIDI note of the grid tried
MaxRoundTripMidi == 130

\* how far, in semitones, the values outside the doubles lie from 0
BeyondDouble == 13000

\* whole and fractional MIDI values where a cent is more than a centihertz
\* (from MIDI 13 up), and one value past each end of the doubles
RoundTripInputs ==
    {semi * 100 + frac : semi \in 13 .. MaxRoundTripMidi, frac \in {0, 1, 50, 99}}
        \cup {BeyondDouble * 100, -BeyondDouble * 100}

CallRoundTrip ==
    \E midiNote \in RoundTripInputs :
        LET frequency == midiToFrequencyDouble(midiNote)
        IN  Becomes([Begin("roundTrip") EXCEPT
                        !.lastOp.ret = [midi |-> midiNote, frequency |-> frequency,
                                        back |-> frequencyToMidiDouble(frequency)]])

NextRoundTrip == CallRoundTrip

SpecRoundTrip == Init /\ [][NextRoundTrip]_vars

-----------------------------------------------------------------------------
(* interaction.js: class Sequencer *)

\* Sequencer.stop
sequencerStop(w) ==
    IF ~w.sequencer.isPlaying THEN w
    ELSE [w EXCEPT !.sequencer.isPlaying = FALSE,
                   !.sequencer.currentStep = 0,
                   !.sequencer.timers = @ \ {w.sequencer.intervalId},
                   !.sequencer.intervalId = NULL]

\* Sequencer._playStep.  Past the end of the sequence the index is undefined,
\* both comparisons are false and undefined.pluck() throws a TypeError.
sequencerPlayStep(w) ==
    LET q == w.sequencer
        stringIndex == q.sequence[q.currentStep + 1]
        plucked == IF stringIndex < 0 \/ stringIndex >= Len(w.strings) THEN w
                   ELSE pluck(w, stringIndex)
        advanced == [plucked EXCEPT !.sequencer.currentStep = @ + 1,
                                    !.sequencer.played = @ + 1]
    IN  IF ~q.appReference THEN sequencerStop(w)
        ELSE IF q.currentStep >= Len(q.sequence) THEN [w EXCEPT !.lastOp.op = "TypeError"]
        ELSE IF advanced.sequencer.currentStep >= Len(q.sequence)
        THEN IF q.loopEnabled THEN [advanced EXCEPT !.sequencer.currentStep = 0]
             ELSE sequencerStop(advanced)
        ELSE advanced

\* Sequencer.play: the first step runs before setInterval
sequencerPlay(w) ==
    LET q == w.sequencer
        started == [w EXCEPT !.sequencer.isPlaying = TRUE,
                             !.sequencer.currentStep = 0,
                             !.sequencer.played = 0]
        first == sequencerPlayStep(started)
    IN  IF ~q.appReference \/ Len(q.sequence) = 0 \/ q.isPlaying THEN w
        ELSE [first EXCEPT !.sequencer.intervalId = q.nextTimer,
                           !.sequencer.timers = @ \cup {q.nextTimer},
                           !.sequencer.nextTimer = @ + 1]

\* the sequences set before playing, as 0-based string indices: one step, two
\* steps, three steps, and a step on a string that does not exist
SequenceInputs == {<<0>>, <<0, 1>>, <<1, 0, 1>>, <<0, 5>>}

\* the sequencer after setApp(app), setSequence(text) and setLoop(flag)
InitSequencer ==
    /\ PHYSICS = InitPHYSICS
    /\ app = InitApp
    /\ im = InitIM
    /\ audio = InitAudio
    /\ exported = NoConfig
    /\ mouse = InitMouse
    /\ clock = ClockStart
    /\ lastOp = Op("new")
    /\ strings = createChromaticStrings(MaxStrings, DEFAULT_MATERIAL, DEFAULT_GAUGE,
                                        DEFAULT_TENSION, DEFAULT_FULL_STRING_LENGTH)
    /\ \E sequence \in SequenceInputs, loopEnabled \in BOOLEAN :
          sequencer = [NewSequencer EXCEPT !.appReference = TRUE,
                                           !.sequence = sequence,
                                           !.loopEnabled = loopEnabled]

\* the interval timers setInterval may create
MaxTimers == 3

\* the steps a playback may run
MaxPlayed == 6

SequencerPlay ==
    /\ sequencer.nextTimer <= MaxTimers
    /\ Becomes(sequencerPlay(Begin("play")))

SequencerStop == Becomes(sequencerStop(Begin("stop")))

\* one firing of a scheduled interval timer
IntervalTimerOf(id) ==
    /\ id \in sequencer.timers
    /\ sequencer.played < MaxPlayed
    /\ Becomes(sequencerPlayStep(Begin("intervalTimer")))

IntervalTimer == \E id \in 1 .. MaxTimers : IntervalTimerOf(id)

NextSequencer ==
    \/ SequencerPlay
    \/ SequencerStop
    \/ IntervalTimer

SpecSequencer == InitSequencer /\ [][NextSequencer]_vars

\* C30: with looping disabled, a playback that has stopped leaves no interval
\* timer scheduled, no playback runs more steps than the sequence has, and a
\* playback that stopped by itself has run exactly as many.
C30_PlaybackStopsAfterLastStep ==
    ~sequencer.loopEnabled =>
        /\ ~sequencer.isPlaying => sequencer.timers = {}
        /\ sequencer.played <= Len(sequencer.sequence)
        /\ (~sequencer.isPlaying /\ lastOp.op \in {"play", "intervalTimer"})
              => sequencer.played = Len(sequencer.sequence)

\* the same for sequences of two steps or more
C30_LongerSequencesStop ==
    Len(sequencer.sequence) >= 2 => C30_PlaybackStopsAfterLastStep

-----------------------------------------------------------------------------
(* The sequencer driven through all of its methods.                       *)

\* Sequencer.setSequence.  The text is the sequence of its comma-separated
\* entries, each given by what parseInt makes of it; the empty sequence is
\* the empty (or blank) text.
setSequence(q, sequenceString) ==
    LET invalid == {k \in 1 .. Len(sequenceString) :
                       sequenceString[k] = NAN \/ sequenceString[k] < 1}
    IN  IF sequenceString = <<>> THEN [ok |-> FALSE, sequencer |-> [q EXCEPT !.sequence = <<>>]]
        ELSE IF invalid # {} THEN [ok |-> FALSE, sequencer |-> q]
        ELSE [ok |-> TRUE,
              sequencer |-> [q EXCEPT !.sequence =
                                [k \in 1 .. Len(sequenceString) |-> sequenceString[k] - 1]]]

\* Sequencer.setTempo: a playing sequencer is stopped and started again
setTempo(w, bpm) ==
    LET w1 == [w EXCEPT !.sequencer.tempo = Max(40, Min(240, bpm))]
    IN  IF w.sequencer.isPlaying THEN sequencerPlay(sequencerStop(w1)) ELSE w1

\* Sequencer.setLoop
setLoop(w, enabled) == [w EXCEPT !.sequencer.loopEnabled = enabled]

\* the texts given to setSequence: empty, one, two and three entries, an entry
\* that is no number and an entry below 1
SequenceTexts == {<<>>, <<1>>, <<1, 2>>, <<2, 1, 2>>, <<1, NAN>>, <<0>>}

TempoInputs == {30, 120}

\* the sequencer after setApp(app)
InitSequencerApi ==
    /\ PHYSICS = InitPHYSICS
    /\ app = InitApp
    /\ im = InitIM
    /\ audio = InitAudio
    /\ exported = NoConfig
    /\ mouse = InitMouse
    /\ clock = ClockStart
    /\ lastOp = Op("new")
    /\ strings = createChromaticStrings(MaxStrings, DEFAULT_MATERIAL, DEFAULT_GAUGE,
                                        DEFAULT_TENSION, DEFAULT_FULL_STRING_LENGTH)
    /\ sequencer = [NewSequencer EXCEPT !.appReference = TRUE]

\* setSequence; the text, the sequence before and the return value are recorded
SetSequence ==
    \E sequenceString \in SequenceTexts :
        LET r == setSequence(sequencer, sequenceString)
        IN  Becomes([Begin("setSequence") EXCEPT
                        !.sequencer = r.sequencer,
                        !.lastOp.ret = [text |-> sequenceString, ok |-> r.ok,
                                        before |-> sequencer.sequence]])

SetTempo ==
    /\ sequencer.nextTimer <= MaxTimers
    /\ \E bpm \in TempoInputs : Becomes(setTempo(Begin("setTempo"), bpm))

SetLoop == \E enabled \in BOOLEAN : Becomes(setLoop(Begin("setLoop"), enabled))

\* one firing of a scheduled interval timer; the position it starts from and
\* whether the sequencer was playing are recorded
IntervalTimerFires ==
    /\ sequencer.timers # {}
    /\ sequencer.played < MaxPlayed
    /\ Becomes(sequencerPlayStep(
                   [Begin("intervalTimer") EXCEPT
                       !.lastOp.ret = [step |-> sequencer.currentStep,
                                       length |-> Len(sequencer.sequence),
                                       playing |-> sequencer.isPlaying]]))

NextSequencerApi ==
    \/ SetSequence
    \/ SetTempo
    \/ SetLoop
    \/ SequencerPlay
    \/ SequencerStop
    \/ IntervalTimerFires

SpecSequencerApi == InitSequencerApi /\ [][NextSequencerApi]_vars

\* C31: an interval timer is scheduled exactly when isPlaying is true, there is
\* never more than one, and no timer fires while the sequencer is stopped.
C31_TimerExactlyWhilePlaying ==
    /\ sequencer.isPlaying <=> sequencer.timers # {}
    /\ Cardinality(sequencer.timers) <= 1
    /\ lastOp.op \in {"intervalTimer", "TypeError"} => lastOp.ret.playing

\* C32: every step the sequencer plays reads a position inside the current
\* sequence, also after setSequence replaced the sequence during playback.
C32_StepInsideSequence ==
    lastOp.op \in {"intervalTimer", "TypeError"} =>
        (lastOp.ret.step >= 0 /\ lastOp.ret.step < lastOp.ret.length)

C38_InvalidEntryKeepsOld ==
    (lastOp.op = "setSequence" /\ ~lastOp.ret.ok /\ lastOp.ret.text # <<>>) =>
        sequencer.sequence = lastOp.ret.before

-----------------------------------------------------------------------------
(* The primary selection and the selected indices.                        *)

\* C33: the primary selected index is always one of the selected indices, after
\* presses, multi-select toggles, arrow keys and collection replacements.
C33_PrimaryInSelection ==
    Contains(im.selectedStringIndices, im.selectedStringIndex)

\* i is the index of an existing string
Existing(i) == i >= 0 /\ i < Len(strings)

\* C34: the primary index and every selected index refer to an existing string,
\* also right after the collection was replaced by a smaller one.
C34_SelectionExists ==
    /\ Existing(im.selectedStringIndex)
    /\ \A k \in 1 .. Len(im.selectedStringIndices) : Existing(im.selectedStringIndices[k])

\* the slider has just made the collection one string long while the second
\* string was the primary selection and both strings were selected
C34_Witness ==
    /\ lastOp.op = "setStringCount"
    /\ lastOp.ret.primary = 1
    /\ Len(lastOp.ret.selected) = 2
    /\ Len(strings) = 1
    /\ im.selectedStringIndices = <<0>>

-----------------------------------------------------------------------------
(* SpecWall: the string count slider over its range and wall dimension    *)
(* changes, on walls wide and narrow.                                     *)

\* string counts the slider offers: its ends, the default, and the counts
\* around the maximum of a four foot wall
SliderCounts == {1, 12, 121, 122, 144}

\* width and height in tenths of a foot: the default wall, a four foot wall,
\* a ten foot wall and a one foot wall
NarrowWallSizes == {<<257, 70>>, <<40, 70>>, <<100, 60>>, <<10, 70>>}

StringCountSliderOver(counts) ==
    \E count \in counts :
        Becomes(setStringCount(
                    [Begin("setStringCount") EXCEPT
                        !.lastOp.ret = [primary |-> im.selectedStringIndex,
                                        selected |-> im.selectedStringIndices]],
                    count))

ApplyWallDimensionsOver(sizes) ==
    \E size \in sizes :
        Becomes(setWallDimensions(
                    [Begin("setWallDimensions") EXCEPT !.lastOp.ret = Len(strings)],
                    size[1], size[2]))

NextWall ==
    \/ StringCountSliderOver(SliderCounts)
    \/ ApplyWallDimensionsOver(NarrowWallSizes)
    \/ ToggleReverseCapo

SpecWall == Init /\ [][NextWall]_vars

\* WallHarpSimulator.calculateMaxStrings
calculateMaxStrings == app.wallWidthMm \div MIN_STRING_SPACING

\* C39: there is always at least one string and never more than
\* floor(wall width / minimum string spacing), after any string count change
\* and any wall dimension change.
C39_CountWithinWall ==
    /\ Len(strings) >= 1
    /\ Len(strings) <= calculateMaxStrings

\* a wall dimension change leaves the count within the new wall, also when it
\* had to reduce the count
C39_WallChangeFitsCount ==
    lastOp.op = "setWallDimensions" => (Len(strings) >= 1 /\ Len(strings) <= calculateMaxStrings)

-----------------------------------------------------------------------------
(* Overlapping initializations of the audio engine.  A call of initialize *)
(* is in flight from its first await to the end of the second; the code   *)
(* after the second await runs without interruption, and the calls in     *)
(* flight complete in any order.                                          *)

\* calls of initialize in flight at the same time
MaxConcurrentInit == 2

\* the rest of initialize for the k-th call in flight: effects chain, synths,
\* initialized = true and the test chord
initializeCompleteOf(w, k) ==
    [w EXCEPT !.audio.initializing = Splice(@, k),
              !.audio.numSynths = w.audio.initializing[k],
              !.audio.initialized = TRUE,
              !.audio.testChord = 3]

\* the Initialize Audio button, while fewer than MaxConcurrentInit calls are in flight
InitAudioClickAgain ==
    /\ Len(audio.initializing) < MaxConcurrentInit
    /\ Becomes(initialize(Begin("initAudio"), Len(strings)))

\* one of the calls in flight completes; whether the engine was already
\* initialized when it created its effects chain and synths is recorded
InitAudioCompleteAny ==
    \E k \in 1 .. Len(audio.initializing) :
        Becomes(initializeCompleteOf(
                    [Begin("initAudioComplete") EXCEPT
                        !.lastOp.ret = [already |-> audio.initialized,
                                        inFlight |-> Len(audio.initializing)]],
                    k))

\* the string count slider, while its re-initialization keeps the calls in
\* flight within MaxConcurrentInit
ReinitSlider ==
    /\ audio.initialized => Len(audio.initializing) < MaxConcurrentInit
    /\ StringCountSliderOver(1 .. MaxStrings)

\* the engine after a completed initialization for the current strings
InitReinit ==
    /\ PHYSICS = InitPHYSICS
    /\ app = InitApp
    /\ im = InitIM
    /\ audio = [InitAudio EXCEPT !.initialized = TRUE, !.numSynths = MaxStrings]
    /\ exported = NoConfig
    /\ mouse = InitMouse
    /\ clock = ClockStart
    /\ sequencer = NewSequencer
    /\ lastOp = Op("new")
    /\ strings = createChromaticStrings(MaxStrings, DEFAULT_MATERIAL, DEFAULT_GAUGE,
                                        DEFAULT_TENSION, DEFAULT_FULL_STRING_LENGTH)

NextReinit ==
    \/ ReinitSlider
    \/ InitAudioCompleteAny
    \/ ModeButton

SpecReinit == InitReinit /\ [][NextReinit]_vars

NextInitTwice ==
    \/ InitAudioClickAgain
    \/ InitAudioCompleteAny
    \/ TestChordTimer
    \/ ReinitSlider

SpecInitTwice == Init /\ [][NextInitTwice]_vars

\* the engine is initialized and no call of initialize is in flight
Settled == audio.initialized /\ audio.initializing = <<>>

\* C35: once audio has been initialized and the re-initializations that string
\* count changes started have settled, there are as many synths as strings, and
\* a pluck of any existing string index triggers a synth.
C35_SynthPerStringWhenSettled ==
    Settled =>
        /\ audio.numSynths = Len(strings)
        /\ \A i \in 1 .. Len(strings) : pluckString(audio, i - 1, 26163)

\* C36: an initialization that completes never finds the engine initialized:
\* the effects chain and the synths are created once, also when initialize was
\* called again before the earlier call completed.
C36_OneChainOneSynthSet ==
    lastOp.op = "initAudioComplete" => ~lastOp.ret.already

\* a call of initialize made after the earlier one completed creates nothing
C36_AgainAfterCompletion ==
    [][(lastOp'.op = "initAudio" /\ audio.initialized) => audio' = audio]_vars

-----------------------------------------------------------------------------
(* SpecRepluck: plucks of a string that is still playing.  Here every     *)
(* pluck keeps its own duration timer: timers lists the times at which    *)
(* the pending timers of a string are due, in the order of their plucks.  *)

\* durations in ms of the plucks the handlers request: pluck(0.5, ...) of the
\* keys and the drag, pluck(1.0, ...) of a press
PluckDurations == {500, 1000}

\* ms between two looks at the clock
RepluckStep == 500

\* the clock stops after this many steps
MaxRepluckSteps == 4

\* pending duration timers per string
MaxPendingTimers == 2

\* HarpString.pluck(duration) on the string at index i, at the time of the clock
pluckFor(w, i, duration) ==
    LET s == w.strings[i + 1]
        called == [w EXCEPT !.lastOp.plucked = Append(@, [index |-> i, stale |-> FALSE])]
    IN  IF ~w.audio.initialized THEN called
        ELSE [called EXCEPT
                !.lastOp.sounded =
                    IF pluckString(w.audio, s.index, s.actualFrequency)
                    THEN Append(@, s.index) ELSE @,
                !.strings[i + 1] = [@ EXCEPT !.isPlaying = TRUE,
                                             !.playingAmplitude = 1000,
                                             !.timerPending = TRUE,
                                             !.timers = Append(@, w.clock + duration)]]

\* the k-th pending timer of the string at position i fires: isPlaying = false
durationTimer(w, i, k) ==
    [w EXCEPT !.strings[i] = [@ EXCEPT !.isPlaying = FALSE,
                                       !.timers = Splice(@, k),
                                       !.timerPending = Len(w.strings[i].timers) > 1]]

PluckAgain ==
    \E i \in 1 .. Len(strings), duration \in PluckDurations :
        /\ Len(strings[i].timers) < MaxPendingTimers
        /\ Becomes(pluckFor([Begin("pluck") EXCEPT !.lastOp.ret = [position |-> i]],
                            i - 1, duration))

\* a timer that is due fires; the step records whether a later pluck of the
\* string is pending whose duration has not elapsed
DurationTimer ==
    \E i \in 1 .. Len(strings) :
        \E k \in 1 .. Len(strings[i].timers) :
            /\ strings[i].timers[k] <= clock
            /\ Becomes(durationTimer(
                   [Begin("durationTimer") EXCEPT
                       !.lastOp.ret =
                           [position |-> i,
                            laterRunning |-> \E j \in k + 1 .. Len(strings[i].timers) :
                                                 strings[i].timers[j] > clock]],
                   i, k))

\* time passes once every timer that is due has fired
RepluckTick ==
    /\ clock < ClockStart + MaxRepluckSteps * RepluckStep
    /\ \A i \in 1 .. Len(strings) :
          \A k \in 1 .. Len(strings[i].timers) : strings[i].timers[k] > clock
    /\ Becomes([Begin("tick") EXCEPT !.clock = clock + RepluckStep])

NextRepluck ==
    \/ PluckAgain
    \/ DurationTimer
    \/ RepluckTick

SpecRepluck == InitReinit /\ [][NextRepluck]_vars

C37_LastTimerStopsPlaying ==
    (lastOp.op = "durationTimer" /\ strings[lastOp.ret.position].timers = <<>>)
        => ~strings[lastOp.ret.position].isPlaying


====
